---- MODULE Spec2Model ----
(***************************************************************************)
(* Model of the FIR auto-writing backend: the BIO span aggregation of      *)
(* NLPService.extract_entities (src/Backend/nlp_service.py) and the        *)
(* classification service with its load-time fallback chain               *)
(* (src/Backend/classification_service.py).                                *)
(*                                                                         *)
(* Strings the code inspects character by character (token surfaces, the   *)
(* complaint text, the keyword table) are sequences of one-character       *)
(* strings.  Confidences of tokens are integers in hundredths (80 is 0.8). *)
(* Classification scores are exact fractions <<numerator, denominator>>.   *)
(***************************************************************************)
EXTENDS Integers, Sequences, FiniteSets, TLC

VARIABLES
    \* ---- NLPService.extract_entities (one call at a time) ----
    ner_pc,           \* "idle" (no call), "scan" (inside the for loop), "done" (returned)
    scanned,          \* number of (token, label, score) triples consumed by the loop
    current_entity,   \* the local current_entity: "None" or a label
    current_text,     \* the local current_text: sequence of token surfaces
    current_scores,   \* the local current_scores: sequence of scores
    entities,         \* the dict entities: persons / locations / organizations
    closed,           \* history: every span the four save sites looked at, in order
    raw_entities,     \* history: entities as it stood just before the Deduplicate loop
    input,            \* history: the (token, label, score) triples the loop consumed in this call
    calls,            \* history: number of extract_entities calls entered so far
    \* ---- ClassificationService ----
    cls_pc,           \* position in __init__/_load_models, then "ready"
    classifier,       \* self.classifier: "None" or "pipeline"
    sentence_model,   \* self.sentence_model: "None" or "model"
    use_zero_shot,    \* self.use_zero_shot
    category_embeddings, \* the categories self.category_embeddings has a key for, in order
    load_log,         \* history: the load steps run by _load_models, with their outcome
    call,             \* history: the last call made on the service, with its result
    \* ---- the singleton getters of nlp_service.py and classification_service.py ----
    singleton,        \* the module globals _nlp_service / _classification_service:
                      \* 0 for None, else the number of the instance stored
    constructed,      \* history: per service, how many instances were constructed
    caller,           \* per calling thread: position in the getter, service, locals
    returned,         \* history: per service, the instances the getter has returned
    \* ---- app.py ----
    main_pc,          \* the process: "loaded" (module imported), "serving", "crashed"
    nlp_service,      \* the global nlp_service: "None" or "NLPService"
    classification_service,  \* the global classification_service: "None" or "ClassificationService"
    fir_history,      \* the global list fir_history
    next_fir,         \* history: number of FIR ids generated so far
    responses         \* history: the responses sent so far, in order

ner_vars == <<ner_pc, scanned, current_entity, current_text, current_scores,
              entities, closed, raw_entities, input, calls>>
cls_vars == <<cls_pc, classifier, sentence_model, use_zero_shot,
              category_embeddings, load_log, call>>
getter_vars == <<singleton, constructed, caller, returned>>
app_vars == <<main_pc, nlp_service, classification_service, fir_history, next_fir,
              responses>>
vars == <<ner_vars, cls_vars, getter_vars, app_vars>>

(***************************************************************************)
(* Bounds of the model.                                                    *)
(***************************************************************************)
\* longest token sequence one extract_entities call scans
MaxTokens == 3
\* most chunks of the chunk pool a complaint text is made of
MaxChunks == 2
\* most extract_entities calls made on the service
MaxCalls == 2
\* number of threads that call the singleton getters
MaxThreads == 2
\* most requests the server answers
MaxRequests == 3

(***************************************************************************)
(* Generic helpers on sequences.                                           *)
(***************************************************************************)
RECURSIVE SumSeq(_)
\* Python's sum() over a list of numbers
SumSeq(s) == IF s = <<>> THEN 0 ELSE Head(s) + SumSeq(Tail(s))

\* Python's `x in list`
InSeq(x, s) == \E i \in 1..Len(s) : s[i] = x

RECURSIVE JoinWith(_, _)
\* Python's sep.join(list) on character sequences
JoinWith(sep, ws) ==
    IF ws = <<>> THEN <<>>
    ELSE IF Len(ws) = 1 THEN ws[1]
    ELSE ws[1] \o sep \o JoinWith(sep, Tail(ws))

\* whether character sequence p occurs in s at position i
OccursAt(p, s, i) ==
    /\ i + Len(p) - 1 <= Len(s)
    /\ \A j \in 1..Len(p) : s[i + j - 1] = p[j]

\* Python's `p in s` on strings
IsSubstring(p, s) == \E i \in 1..(Len(s) - Len(p) + 1) : OccursAt(p, s, i)

RECURSIVE ReplaceAll(_, _, _)
\* Python's s.replace(old, new): leftmost non-overlapping occurrences
ReplaceAll(s, old, new) ==
    IF s = <<>> THEN <<>>
    ELSE IF OccursAt(old, s, 1)
         THEN new \o ReplaceAll(SubSeq(s, Len(old) + 1, Len(s)), old, new)
         ELSE <<Head(s)>> \o ReplaceAll(Tail(s), old, new)

RECURSIVE LStrip(_)
LStrip(s) == IF s # <<>> /\ Head(s) = " " THEN LStrip(Tail(s)) ELSE s

RECURSIVE RStrip(_)
RStrip(s) ==
    IF s # <<>> /\ s[Len(s)] = " " THEN RStrip(SubSeq(s, 1, Len(s) - 1)) ELSE s

\* Python's s.strip()
Strip(s) == RStrip(LStrip(s))

(***************************************************************************)
(* NLPService.extract_entities: tokens, labels, scores.                    *)
(***************************************************************************)
CLS == <<"[", "C", "L", "S", "]">>
SEP == <<"[", "S", "E", "P", "]">>
PAD == <<"[", "P", "A", "D", "]">>
\* the list ['[CLS]', '[SEP]', '[PAD]'] of the skip test
SpecialTokens == {CLS, SEP, PAD}

\* word-piece surfaces of the token pool: a one-character word, a two-character
\* word and a sub-word continuation piece
W_A  == <<"A">>
W_Jo == <<"J", "o">>
W_n  == <<"#", "#", "n">>
Words == {W_A, W_Jo, W_n}

\* model.config.id2label of dslim/bert-base-NER
Labels == {"O", "B-PER", "I-PER", "B-LOC", "I-LOC", "B-ORG", "I-ORG", "B-MISC", "I-MISC"}

\* label.startswith("B-")
StartsWithB(label) == label \in {"B-PER", "B-LOC", "B-ORG", "B-MISC"}
\* label.startswith("I-")
StartsWithI(label) == label \in {"I-PER", "I-LOC", "I-ORG", "I-MISC"}
\* label.replace("B-", "").replace("I-", "")
EntityType(label) ==
    CASE label \in {"B-PER", "I-PER"}   -> "PER"
      [] label \in {"B-LOC", "I-LOC"}   -> "LOC"
      [] label \in {"B-ORG", "I-ORG"}   -> "ORG"
      [] label \in {"B-MISC", "I-MISC"} -> "MISC"
      [] OTHER -> label

\* token scores in hundredths: 0.2, 0.5, 0.8
Scores == {20, 50, 80}

Tok(t, l, s) == [token |-> t, label |-> l, score |-> s]

\* the (token, label, score) triples a scan step may be handed
TokenPool ==
    {Tok(t, "O", 80) : t \in SpecialTokens}
    \cup {Tok(W_Jo, "O", 80)}
    \cup {Tok(W_Jo, "B-PER", s) : s \in Scores}
    \cup {Tok(W_n, "I-PER", s) : s \in Scores}
    \cup {Tok(t, l, 80) : t \in Words, l \in {"B-PER", "I-PER"}}
    \cup {Tok(W_Jo, l, 80) : l \in {"B-LOC", "B-ORG", "B-MISC"}}
    \cup {Tok(W_n, l, 80) : l \in {"I-LOC", "I-ORG", "I-MISC"}}

\* the word pieces of "Johnson robbed near Delhi"
W_John   == <<"J", "o", "h", "n">>
W_son    == <<"#", "#", "s", "o", "n">>
W_robbed == <<"r", "o", "b", "b", "e", "d">>
W_near   == <<"n", "e", "a", "r">>
W_Delhi  == <<"D", "e", "l", "h", "i">>

\* one longer output of the tokenizer and the model, scanned beyond MaxTokens:
\* [("John","B-PER",0.9), ("##son","I-PER",0.85), ("robbed","O",0.99),
\*  ("near","O",0.9), ("Delhi","B-LOC",0.95)]
JohnsonDelhi ==
    <<Tok(W_John, "B-PER", 90), Tok(W_son, "I-PER", 85), Tok(W_robbed, "O", 99),
      Tok(W_near, "O", 90), Tok(W_Delhi, "B-LOC", 95)>>

\* p is a proper prefix of s
IsProperPrefix(p, s) == Len(p) < Len(s) /\ SubSeq(s, 1, Len(p)) = p

\* the triples zip(tokens, labels, scores) may hand the loop next: any triple
\* of the pool while fewer than MaxTokens were consumed, and the next triple of
\* JohnsonDelhi while the triples consumed so far are its beginning
NextTriples ==
    (IF scanned < MaxTokens THEN TokenPool ELSE {})
    \cup (IF IsProperPrefix(input, JohnsonDelhi)
          THEN {JohnsonDelhi[Len(input) + 1]}
          ELSE {})

\* tokenizer.convert_tokens_to_string of the BERT word-piece tokenizer:
\* " ".join(tokens).replace(" ##", "").strip()
convert_tokens_to_string(tokens) ==
    Strip(ReplaceAll(JoinWith(<<" ">>, tokens), <<" ", "#", "#">>, <<>>))

\* EntityText as a plain " ".join of the word pieces, sub-word marks left in place
EntityTextJoined(text) == Strip(JoinWith(<<" ">>, text))

\* entity_text = convert_tokens_to_string(current_text).strip().replace(' ##', '')
EntityText(text) ==
    ReplaceAll(Strip(convert_tokens_to_string(text)), <<" ", "#", "#">>, <<>>)

\* the 0.5 of `avg_score >= 0.5`, in hundredths
MinAvgScore == 50

\* AvgScoreOk with the comparison written `avg_score > 0.5`
AvgScoreOkStrict(scores) ==
    IF scores = <<>> THEN 0 > MinAvgScore
    ELSE SumSeq(scores) > MinAvgScore * Len(scores)

\* avg_score = sum(current_scores) / len(current_scores) if current_scores else 0,
\* then avg_score >= 0.5  (in hundredths: sum >= 50 * len)
AvgScoreOk(scores) ==
    IF scores = <<>> THEN 0 >= MinAvgScore
    ELSE SumSeq(scores) >= MinAvgScore * Len(scores)

\* SaveEntity without the `len(entity_text) > 1` tests
SaveEntityAnyLength(ents, entity_type, text, scores) ==
    LET entity_text == EntityText(text) IN
    IF entity_text # <<>> /\ AvgScoreOk(scores)
    THEN IF entity_type = "PER"
         THEN [ents EXCEPT !.persons = Append(@, entity_text)]
         ELSE IF entity_type = "LOC"
         THEN [ents EXCEPT !.locations = Append(@, entity_text)]
         ELSE IF entity_type = "ORG"
         THEN [ents EXCEPT !.organizations = Append(@, entity_text)]
         ELSE ents
    ELSE ents

\* the body shared by the four save sites: route entity_text of a span of
\* type entity_type into the dict ents
SaveEntity(ents, entity_type, text, scores) ==
    LET entity_text == EntityText(text) IN
    IF entity_text # <<>> /\ AvgScoreOk(scores)
    THEN IF entity_type = "PER" /\ Len(entity_text) > 1
         THEN [ents EXCEPT !.persons = Append(@, entity_text)]
         ELSE IF entity_type = "LOC" /\ Len(entity_text) > 1
         THEN [ents EXCEPT !.locations = Append(@, entity_text)]
         ELSE IF entity_type = "ORG" /\ Len(entity_text) > 1
         THEN [ents EXCEPT !.organizations = Append(@, entity_text)]
         ELSE ents
    ELSE ents

\* `if current_entity and current_text:` in front of three of the save sites
SaveIfOpen(ents, cur_entity, text, scores) ==
    IF cur_entity # "None" /\ text # <<>>
    THEN SaveEntity(ents, EntityType(cur_entity), text, scores)
    ELSE ents

\* the span a save site looks at, as a history record
SpanRec(cur_entity, text, scores) ==
    [type |-> EntityType(cur_entity), text |-> text, scores |-> scores]

LogIfOpen(log, cur_entity, text, scores) ==
    IF cur_entity # "None" /\ text # <<>>
    THEN Append(log, SpanRec(cur_entity, text, scores))
    ELSE log

RECURSIVE DedupLastFrom(_, _)
DedupLastFrom(kept, s) ==
    IF s = <<>> THEN kept
    ELSE DedupLastFrom(IF InSeq(Head(s), Tail(s)) THEN kept ELSE Append(kept, Head(s)),
                       Tail(s))

\* Dedup as a loop that keeps the last occurrence of each string instead of the first
DedupKeepLast(xs) == DedupLastFrom(<<>>, xs)

RECURSIVE DedupFrom(_, _)
DedupFrom(seen, s) ==
    IF s = <<>> THEN seen
    ELSE DedupFrom(IF InSeq(Head(s), seen) THEN seen ELSE Append(seen, Head(s)), Tail(s))

\* list(dict.fromkeys(xs)): keys in order of first insertion
Dedup(xs) == DedupFrom(<<>>, xs)

EmptyEntities == [persons |-> <<>>, locations |-> <<>>, organizations |-> <<>>]

NerInit ==
    /\ ner_pc = "idle"
    /\ scanned = 0
    /\ current_entity = "None"
    /\ current_text = <<>>
    /\ current_scores = <<>>
    /\ entities = EmptyEntities
    /\ closed = <<>>
    /\ raw_entities = EmptyEntities
    /\ input = <<>>
    /\ calls = 0

\* ExtractEntitiesCall with the dict and the three accumulators kept on the
\* service between calls instead of created in the call
ExtractEntitiesCallKeeping ==
    /\ ner_pc \in {"idle", "done"}
    /\ calls < MaxCalls
    /\ calls' = calls + 1
    /\ input' = <<>>
    /\ ner_pc' = "scan"
    /\ scanned' = 0
    /\ closed' = <<>>
    /\ raw_entities' = EmptyEntities
    /\ UNCHANGED <<current_entity, current_text, current_scores, entities>>
    /\ UNCHANGED <<cls_vars, getter_vars, app_vars>>

\* extract_entities is entered: the dict and the three locals are created
ExtractEntitiesCall ==
    /\ ner_pc \in {"idle", "done"}
    /\ calls < MaxCalls
    /\ calls' = calls + 1
    /\ input' = <<>>
    /\ ner_pc' = "scan"
    /\ scanned' = 0
    /\ current_entity' = "None"
    /\ current_text' = <<>>
    /\ current_scores' = <<>>
    /\ entities' = EmptyEntities
    /\ closed' = <<>>
    /\ raw_entities' = EmptyEntities
    /\ UNCHANGED <<cls_vars, getter_vars, app_vars>>

\* loop body, `if token in ['[CLS]', '[SEP]', '[PAD]']: continue`
ScanSpecial ==
    /\ ner_pc = "scan"
    /\ \E tok \in NextTriples :
          /\ tok.token \in SpecialTokens
          /\ scanned' = scanned + 1
          /\ input' = Append(input, tok)
    /\ UNCHANGED <<ner_pc, current_entity, current_text, current_scores,
                   entities, closed, raw_entities, calls>>
    /\ UNCHANGED <<cls_vars, getter_vars, app_vars>>

\* ScanBegin that extends an open span of the token's own type instead of
\* saving it and starting a new one
ScanBeginMerging ==
    /\ ner_pc = "scan"
    /\ \E tok \in NextTriples :
          /\ tok.token \notin SpecialTokens
          /\ StartsWithB(tok.label)
          /\ IF current_entity # "None"
                 /\ EntityType(current_entity) = EntityType(tok.label)
             THEN /\ current_text' = Append(current_text, tok.token)
                  /\ current_scores' = Append(current_scores, tok.score)
                  /\ UNCHANGED <<current_entity, entities, closed>>
             ELSE /\ entities' = SaveIfOpen(entities, current_entity, current_text,
                                            current_scores)
                  /\ closed' = LogIfOpen(closed, current_entity, current_text,
                                         current_scores)
                  /\ current_entity' = tok.label
                  /\ current_text' = <<tok.token>>
                  /\ current_scores' = <<tok.score>>
          /\ scanned' = scanned + 1
          /\ input' = Append(input, tok)
    /\ UNCHANGED <<ner_pc, raw_entities, calls>>
    /\ UNCHANGED <<cls_vars, getter_vars, app_vars>>

\* loop body, `if label.startswith("B-"):`
ScanBegin ==
    /\ ner_pc = "scan"
    /\ \E tok \in NextTriples :
          /\ tok.token \notin SpecialTokens
          /\ StartsWithB(tok.label)
          /\ entities' = SaveIfOpen(entities, current_entity, current_text, current_scores)
          /\ closed' = LogIfOpen(closed, current_entity, current_text, current_scores)
          /\ current_entity' = tok.label
          /\ current_text' = <<tok.token>>
          /\ current_scores' = <<tok.score>>
          /\ scanned' = scanned + 1
          /\ input' = Append(input, tok)
    /\ UNCHANGED <<ner_pc, raw_entities, calls>>
    /\ UNCHANGED <<cls_vars, getter_vars, app_vars>>

\* ScanInsideSame that appends the token to the span but not its score
ScanInsideSameFirstScore ==
    /\ ner_pc = "scan"
    /\ \E tok \in NextTriples :
          /\ tok.token \notin SpecialTokens
          /\ ~StartsWithB(tok.label)
          /\ StartsWithI(tok.label) /\ current_entity # "None"
          /\ EntityType(tok.label) = EntityType(current_entity)
          /\ current_text' = Append(current_text, tok.token)
          /\ scanned' = scanned + 1
          /\ input' = Append(input, tok)
    /\ UNCHANGED <<ner_pc, current_entity, current_scores, entities, closed,
                   raw_entities, calls>>
    /\ UNCHANGED <<cls_vars, getter_vars, app_vars>>

\* loop body, `elif label.startswith("I-") and current_entity:` with equal types
ScanInsideSame ==
    /\ ner_pc = "scan"
    /\ \E tok \in NextTriples :
          /\ tok.token \notin SpecialTokens
          /\ ~StartsWithB(tok.label)
          /\ StartsWithI(tok.label) /\ current_entity # "None"
          /\ EntityType(tok.label) = EntityType(current_entity)
          /\ current_text' = Append(current_text, tok.token)
          /\ current_scores' = Append(current_scores, tok.score)
          /\ scanned' = scanned + 1
          /\ input' = Append(input, tok)
    /\ UNCHANGED <<ner_pc, current_entity, entities, closed, raw_entities, calls>>
    /\ UNCHANGED <<cls_vars, getter_vars, app_vars>>

\* ScanInsideOther that saves the open span under the type of the new label
ScanInsideOtherRetyping ==
    /\ ner_pc = "scan"
    /\ \E tok \in NextTriples :
          /\ tok.token \notin SpecialTokens
          /\ ~StartsWithB(tok.label)
          /\ StartsWithI(tok.label) /\ current_entity # "None"
          /\ EntityType(tok.label) # EntityType(current_entity)
          /\ entities' = IF current_text # <<>>
                         THEN SaveEntity(entities, EntityType(tok.label),
                                         current_text, current_scores)
                         ELSE entities
          /\ closed' = IF current_text # <<>>
                       THEN Append(closed, SpanRec(current_entity, current_text,
                                                   current_scores))
                       ELSE closed
          /\ current_entity' = tok.label
          /\ current_text' = <<tok.token>>
          /\ current_scores' = <<tok.score>>
          /\ scanned' = scanned + 1
          /\ input' = Append(input, tok)
    /\ UNCHANGED <<ner_pc, raw_entities, calls>>
    /\ UNCHANGED <<cls_vars, getter_vars, app_vars>>

\* loop body, `elif label.startswith("I-") and current_entity:` with different types
ScanInsideOther ==
    /\ ner_pc = "scan"
    /\ \E tok \in NextTriples :
          /\ tok.token \notin SpecialTokens
          /\ ~StartsWithB(tok.label)
          /\ StartsWithI(tok.label) /\ current_entity # "None"
          /\ EntityType(tok.label) # EntityType(current_entity)
          /\ entities' = IF current_text # <<>>
                         THEN SaveEntity(entities, EntityType(current_entity),
                                         current_text, current_scores)
                         ELSE entities
          /\ closed' = IF current_text # <<>>
                       THEN Append(closed, SpanRec(current_entity, current_text,
                                                   current_scores))
                       ELSE closed
          /\ current_entity' = tok.label
          /\ current_text' = <<tok.token>>
          /\ current_scores' = <<tok.score>>
          /\ scanned' = scanned + 1
          /\ input' = Append(input, tok)
    /\ UNCHANGED <<ner_pc, raw_entities, calls>>
    /\ UNCHANGED <<cls_vars, getter_vars, app_vars>>

\* ScanOutside that resets the accumulators without saving the open span
ScanOutsideDropping ==
    /\ ner_pc = "scan"
    /\ \E tok \in NextTriples :
          /\ tok.token \notin SpecialTokens
          /\ ~StartsWithB(tok.label)
          /\ ~(StartsWithI(tok.label) /\ current_entity # "None")
          /\ current_entity' = "None"
          /\ current_text' = <<>>
          /\ current_scores' = <<>>
          /\ scanned' = scanned + 1
          /\ input' = Append(input, tok)
    /\ UNCHANGED <<ner_pc, raw_entities, calls, entities, closed>>
    /\ UNCHANGED <<cls_vars, getter_vars, app_vars>>

\* ScanOutside that treats an I- label met with no open span as the begin of
\* a span
ScanOutsideOpening ==
    /\ ner_pc = "scan"
    /\ \E tok \in NextTriples :
          /\ tok.token \notin SpecialTokens
          /\ ~StartsWithB(tok.label)
          /\ ~(StartsWithI(tok.label) /\ current_entity # "None")
          /\ entities' = SaveIfOpen(entities, current_entity, current_text, current_scores)
          /\ closed' = LogIfOpen(closed, current_entity, current_text, current_scores)
          /\ IF StartsWithI(tok.label)
             THEN /\ current_entity' = tok.label
                  /\ current_text' = <<tok.token>>
                  /\ current_scores' = <<tok.score>>
             ELSE /\ current_entity' = "None"
                  /\ current_text' = <<>>
                  /\ current_scores' = <<>>
          /\ scanned' = scanned + 1
          /\ input' = Append(input, tok)
    /\ UNCHANGED <<ner_pc, raw_entities, calls>>
    /\ UNCHANGED <<cls_vars, getter_vars, app_vars>>

\* loop body, the final `else:` (an O label, or an I- label with no open span)
ScanOutside ==
    /\ ner_pc = "scan"
    /\ \E tok \in NextTriples :
          /\ tok.token \notin SpecialTokens
          /\ ~StartsWithB(tok.label)
          /\ ~(StartsWithI(tok.label) /\ current_entity # "None")
          /\ entities' = SaveIfOpen(entities, current_entity, current_text, current_scores)
          /\ closed' = LogIfOpen(closed, current_entity, current_text, current_scores)
          /\ current_entity' = "None"
          /\ current_text' = <<>>
          /\ current_scores' = <<>>
          /\ scanned' = scanned + 1
          /\ input' = Append(input, tok)
    /\ UNCHANGED <<ner_pc, raw_entities, calls>>
    /\ UNCHANGED <<cls_vars, getter_vars, app_vars>>

\* EndOfInput without the save of the span that is still open
EndOfInputDropping ==
    /\ ner_pc = "scan"
    /\ raw_entities' = entities
    /\ entities' = [k \in DOMAIN entities |-> Dedup(entities[k])]
    /\ ner_pc' = "done"
    /\ UNCHANGED <<scanned, current_entity, current_text, current_scores, input, calls,
                   closed>>
    /\ UNCHANGED <<cls_vars, getter_vars, app_vars>>

\* the loop ends: "Don't forget the last entity", the Deduplicate loop, return
EndOfInput ==
    /\ ner_pc = "scan"
    /\ LET saved == SaveIfOpen(entities, current_entity, current_text, current_scores) IN
          /\ raw_entities' = saved
          /\ entities' = [k \in DOMAIN saved |-> Dedup(saved[k])]
    /\ closed' = LogIfOpen(closed, current_entity, current_text, current_scores)
    /\ ner_pc' = "done"
    /\ UNCHANGED <<scanned, current_entity, current_text, current_scores, input, calls>>
    /\ UNCHANGED <<cls_vars, getter_vars, app_vars>>

NerNext ==
    \/ ExtractEntitiesCall
    \/ ScanSpecial
    \/ ScanBegin
    \/ ScanInsideSame
    \/ ScanInsideOther
    \/ ScanOutside
    \/ EndOfInput

(***************************************************************************)
(* ClassificationService: tables.                                          *)
(***************************************************************************)
\* OFFENCE_CATEGORIES["Theft"]
KeywordsTheft == <<
    <<"t", "h", "e", "f", "t">>,   \* theft
    <<"r", "o", "b", "b", "e", "r", "y">>,   \* robbery
    <<"b", "u", "r", "g", "l", "a", "r", "y">>,   \* burglary
    <<"s", "t", "e", "a", "l", "i", "n", "g">>,   \* stealing
    <<"l", "a", "r", "c", "e", "n", "y">>,   \* larceny
    <<"s", "n", "a", "t", "c", "h", "i", "n", "g">>,   \* snatching
    <<"p", "i", "c", "k", "p", "o", "c", "k", "e", "t">>,   \* pickpocket
    <<"s", "h", "o", "p", "l", "i", "f", "t", "i", "n", "g">>,   \* shoplifting
    <<"v", "e", "h", "i", "c", "l", "e", " ", "t", "h", "e", "f", "t">>,   \* vehicle theft
    <<"p", "r", "o", "p", "e", "r", "t", "y", " ", "s", "t", "o", "l", "e", "n">>,   \* property stolen
    <<"b", "e", "l", "o", "n", "g", "i", "n", "g", "s", " ", "t", "a", "k", "e", "n">>,   \* belongings taken
    <<"v", "a", "l", "u", "a", "b", "l", "e", "s", " ", "m", "i", "s", "s", "i", "n", "g">>   \* valuables missing
    >>

\* OFFENCE_CATEGORIES["Assault"]
KeywordsAssault == <<
    <<"a", "s", "s", "a", "u", "l", "t">>,   \* assault
    <<"p", "h", "y", "s", "i", "c", "a", "l", " ", "a", "t", "t", "a", "c", "k">>,   \* physical attack
    <<"b", "e", "a", "t", "i", "n", "g">>,   \* beating
    <<"v", "i", "o", "l", "e", "n", "c", "e">>,   \* violence
    <<"f", "i", "g", "h", "t">>,   \* fight
    <<"b", "o", "d", "i", "l", "y", " ", "h", "a", "r", "m">>,   \* bodily harm
    <<"i", "n", "j", "u", "r", "y">>,   \* injury
    <<"h", "i", "t">>,   \* hit
    <<"p", "u", "n", "c", "h">>,   \* punch
    <<"k", "i", "c", "k">>,   \* kick
    <<"a", "t", "t", "a", "c", "k">>,   \* attack
    <<"m", "u", "r", "d", "e", "r">>,   \* murder
    <<"a", "t", "t", "e", "m", "p", "t", "e", "d", " ", "m", "u", "r", "d", "e", "r">>,   \* attempted murder
    <<"g", "r", "i", "e", "v", "o", "u", "s", " ", "h", "u", "r", "t">>,   \* grievous hurt
    <<"m", "a", "n", "s", "l", "a", "u", "g", "h", "t", "e", "r">>   \* manslaughter
    >>

\* OFFENCE_CATEGORIES["Cyber Crime"]
KeywordsCyberCrime == <<
    <<"c", "y", "b", "e", "r", " ", "c", "r", "i", "m", "e">>,   \* cyber crime
    <<"o", "n", "l", "i", "n", "e", " ", "f", "r", "a", "u", "d">>,   \* online fraud
    <<"h", "a", "c", "k", "i", "n", "g">>,   \* hacking
    <<"p", "h", "i", "s", "h", "i", "n", "g">>,   \* phishing
    <<"i", "d", "e", "n", "t", "i", "t", "y", " ", "t", "h", "e", "f", "t">>,   \* identity theft
    <<"s", "o", "c", "i", "a", "l", " ", "m", "e", "d", "i", "a", " ", "f", "r", "a", "u", "d">>,   \* social media fraud
    <<"f", "a", "c", "e", "b", "o", "o", "k", " ", "s", "c", "a", "m">>,   \* facebook scam
    <<"i", "n", "s", "t", "a", "g", "r", "a", "m", " ", "f", "r", "a", "u", "d">>,   \* instagram fraud
    <<"o", "n", "l", "i", "n", "e", " ", "s", "c", "a", "m">>,   \* online scam
    <<"d", "a", "t", "a", " ", "b", "r", "e", "a", "c", "h">>,   \* data breach
    <<"r", "a", "n", "s", "o", "m", "w", "a", "r", "e">>,   \* ransomware
    <<"c", "y", "b", "e", "r", " ", "s", "t", "a", "l", "k", "i", "n", "g">>,   \* cyber stalking
    <<"o", "n", "l", "i", "n", "e", " ", "h", "a", "r", "a", "s", "s", "m", "e", "n", "t">>,   \* online harassment
    <<"b", "a", "n", "k", " ", "a", "c", "c", "o", "u", "n", "t", " ", "h", "a", "c", "k", "e", "d">>,   \* bank account hacked
    <<"u", "p", "i", " ", "f", "r", "a", "u", "d">>,   \* upi fraud
    <<"c", "r", "e", "d", "i", "t", " ", "c", "a", "r", "d", " ", "f", "r", "a", "u", "d">>,   \* credit card fraud
    <<"o", "t", "p", " ", "f", "r", "a", "u", "d">>   \* otp fraud
    >>

\* OFFENCE_CATEGORIES["Cheating"]
KeywordsCheating == <<
    <<"c", "h", "e", "a", "t", "i", "n", "g">>,   \* cheating
    <<"f", "r", "a", "u", "d">>,   \* fraud
    <<"d", "e", "c", "e", "p", "t", "i", "o", "n">>,   \* deception
    <<"s", "c", "a", "m">>,   \* scam
    <<"c", "o", "n">>,   \* con
    <<"f", "i", "n", "a", "n", "c", "i", "a", "l", " ", "f", "r", "a", "u", "d">>,   \* financial fraud
    <<"m", "o", "n", "e", "y", " ", "f", "r", "a", "u", "d">>,   \* money fraud
    <<"f", "a", "k", "e", " ", "d", "o", "c", "u", "m", "e", "n", "t", "s">>,   \* fake documents
    <<"f", "o", "r", "g", "e", "r", "y">>,   \* forgery
    <<"e", "m", "b", "e", "z", "z", "l", "e", "m", "e", "n", "t">>,   \* embezzlement
    <<"m", "i", "s", "a", "p", "p", "r", "o", "p", "r", "i", "a", "t", "i", "o", "n">>,   \* misappropriation
    <<"b", "r", "e", "a", "c", "h", " ", "o", "f", " ", "t", "r", "u", "s", "t">>,   \* breach of trust
    <<"p", "o", "n", "z", "i", " ", "s", "c", "h", "e", "m", "e">>   \* ponzi scheme
    >>

\* OFFENCE_CATEGORIES["Harassment"]
KeywordsHarassment == <<
    <<"h", "a", "r", "a", "s", "s", "m", "e", "n", "t">>,   \* harassment
    <<"s", "t", "a", "l", "k", "i", "n", "g">>,   \* stalking
    <<"t", "h", "r", "e", "a", "t", "e", "n", "i", "n", "g">>,   \* threatening
    <<"i", "n", "t", "i", "m", "i", "d", "a", "t", "i", "o", "n">>,   \* intimidation
    <<"b", "u", "l", "l", "y", "i", "n", "g">>,   \* bullying
    <<"s", "e", "x", "u", "a", "l", " ", "h", "a", "r", "a", "s", "s", "m", "e", "n", "t">>,   \* sexual harassment
    <<"w", "o", "r", "k", "p", "l", "a", "c", "e", " ", "h", "a", "r", "a", "s", "s", "m", "e", "n", "t">>,   \* workplace harassment
    <<"d", "o", "m", "e", "s", "t", "i", "c", " ", "v", "i", "o", "l", "e", "n", "c", "e">>,   \* domestic violence
    <<"e", "v", "e", " ", "t", "e", "a", "s", "i", "n", "g">>,   \* eve teasing
    <<"d", "o", "w", "r", "y", " ", "h", "a", "r", "a", "s", "s", "m", "e", "n", "t">>,   \* dowry harassment
    <<"m", "e", "n", "t", "a", "l", " ", "t", "o", "r", "t", "u", "r", "e">>,   \* mental torture
    <<"a", "b", "u", "s", "e">>   \* abuse
    >>

\* OFFENCE_CATEGORIES["Other"]
KeywordsOther == <<
    <<"o", "t", "h", "e", "r", " ", "c", "r", "i", "m", "e">>,   \* other crime
    <<"m", "i", "s", "c", "e", "l", "l", "a", "n", "e", "o", "u", "s">>,   \* miscellaneous
    <<"g", "e", "n", "e", "r", "a", "l", " ", "c", "o", "m", "p", "l", "a", "i", "n", "t">>,   \* general complaint
    <<"u", "n", "k", "n", "o", "w", "n", " ", "o", "f", "f", "e", "n", "c", "e">>   \* unknown offence
    >>

\* the keys of OFFENCE_CATEGORIES in the dict's insertion order
Categories == <<"Theft", "Assault", "Cyber Crime", "Cheating", "Harassment", "Other">>
CategorySet == {Categories[i] : i \in 1..Len(Categories)}

OFFENCE_CATEGORIES ==
    [c \in CategorySet |->
        CASE c = "Theft"       -> KeywordsTheft
          [] c = "Assault"     -> KeywordsAssault
          [] c = "Cyber Crime" -> KeywordsCyberCrime
          [] c = "Cheating"    -> KeywordsCheating
          [] c = "Harassment"  -> KeywordsHarassment
          [] c = "Other"       -> KeywordsOther]

ZERO_SHOT_LABELS == <<
    "theft or robbery or stealing",
    "physical assault or violence or attack",
    "cyber crime or online fraud or hacking",
    "cheating or fraud or scam",
    "harassment or stalking or threatening",
    "other criminal activity" >>

LABEL_MAPPING ==
    [l \in {ZERO_SHOT_LABELS[i] : i \in 1..Len(ZERO_SHOT_LABELS)} |->
        CASE l = "theft or robbery or stealing"           -> "Theft"
          [] l = "physical assault or violence or attack" -> "Assault"
          [] l = "cyber crime or online fraud or hacking" -> "Cyber Crime"
          [] l = "cheating or fraud or scam"              -> "Cheating"
          [] l = "harassment or stalking or threatening"  -> "Harassment"
          [] l = "other criminal activity"                -> "Other"]

\* LABEL_MAPPING.get(label, "Other")
MappedLabel(label) ==
    IF label \in DOMAIN LABEL_MAPPING THEN LABEL_MAPPING[label] ELSE "Other"

(***************************************************************************)
(* Scores.  A float score is the exact fraction <<n, d>> with d > 0.       *)
(***************************************************************************)
Frac(n, d) == <<n, d>>
FLess(a, b) == IF a[2] = b[2] THEN a[1] < b[1] ELSE a[1] * b[2] < b[1] * a[2]
FEq(a, b) == a[1] * b[2] = b[1] * a[2]
FGeq(a, b) == ~FLess(a, b)

RECURSIVE Gcd(_, _)
Gcd(a, b) == IF b = 0 THEN a ELSE Gcd(b, a % b)
Lcm(a, b) == (a * b) \div Gcd(a, b)

RECURSIVE LcmOfLengths(_)
LcmOfLengths(i) ==
    IF i = 0 THEN 1
    ELSE Lcm(Len(OFFENCE_CATEGORIES[Categories[i]]), LcmOfLengths(i - 1))

\* the unit in which the raw keyword scores match_count / len(keywords) are all
\* whole numbers: the least common multiple of the six keyword-list lengths
ScoreUnit == LcmOfLengths(Len(Categories))

\* MaxKey as a loop that returns the first key of the dict
FirstKey(order, scores) ==
    LET keys == SelectSeq(order, LAMBDA c : c \in DOMAIN scores) IN keys[1]

\* Python's max(scores, key=scores.get): the first key, in the dict's iteration
\* order, whose value no other key's value exceeds
MaxKey(order, scores) ==
    LET keys == SelectSeq(order, LAMBDA c : c \in DOMAIN scores)
        first == CHOOSE i \in 1..Len(keys) :
                    /\ \A j \in 1..Len(keys) : ~FLess(scores[keys[i]], scores[keys[j]])
                    /\ \A j \in 1..(i - 1) :
                          \E k \in 1..Len(keys) : FLess(scores[keys[j]], scores[keys[k]])
    IN  keys[first]

ClassificationResult(label, confidence, all_scores) ==
    [label |-> label, confidence |-> confidence, all_scores |-> all_scores]

(***************************************************************************)
(* The complaint text.                                                     *)
(***************************************************************************)
UpperCase == <<"A", "B", "C", "D", "E", "F", "G", "H", "I", "J", "K", "L", "M",
               "N", "O", "P", "Q", "R", "S", "T", "U", "V", "W", "X", "Y", "Z">>
LowerCase == <<"a", "b", "c", "d", "e", "f", "g", "h", "i", "j", "k", "l", "m",
               "n", "o", "p", "q", "r", "s", "t", "u", "v", "w", "x", "y", "z">>

LowerChar(c) ==
    IF \E i \in 1..Len(UpperCase) : UpperCase[i] = c
    THEN LowerCase[CHOOSE i \in 1..Len(UpperCase) : UpperCase[i] = c]
    ELSE c

\* Python's str.lower()
Lower(s) == SubSeq([i \in 1..Len(s) |-> LowerChar(s[i])], 1, Len(s))

\* pieces of complaint text; a text is up to MaxChunks of them joined by spaces
ChunkTheft == <<"T", "h", "e", "f", "t">>
ChunkStolen == <<"s", "t", "o", "l", "e", "n">>
ChunkFraud == <<"f", "r", "a", "u", "d">>
\* "vehicle theft robbery identity theft online scam cyber stalk"
\*  "ing online harassment hit kick punch forgery abuse miscellaneous"
ChunkMixed ==
    <<"v", "e", "h", "i", "c", "l", "e", " ">> \o
    <<"t", "h", "e", "f", "t", " ">> \o
    <<"r", "o", "b", "b", "e", "r", "y", " ">> \o
    <<"i", "d", "e", "n", "t", "i", "t", "y", " ">> \o
    <<"t", "h", "e", "f", "t", " ">> \o
    <<"o", "n", "l", "i", "n", "e", " ">> \o
    <<"s", "c", "a", "m", " ">> \o
    <<"c", "y", "b", "e", "r", " ">> \o
    <<"s", "t", "a", "l", "k", "i", "n", "g", " ">> \o
    <<"o", "n", "l", "i", "n", "e", " ">> \o
    <<"h", "a", "r", "a", "s", "s", "m", "e", "n", "t", " ">> \o
    <<"h", "i", "t", " ">> \o
    <<"k", "i", "c", "k", " ">> \o
    <<"p", "u", "n", "c", "h", " ">> \o
    <<"f", "o", "r", "g", "e", "r", "y", " ">> \o
    <<"a", "b", "u", "s", "e", " ">> \o
    <<"m", "i", "s", "c", "e", "l", "l", "a", "n", "e", "o", "u", "s">>
ChunkPool == {ChunkTheft, ChunkStolen, ChunkFraud, ChunkMixed}

ChunkSeqs == UNION {[1..n -> ChunkPool] : n \in 0..MaxChunks}
\* the complaint texts classify is called with
Texts == {JoinWith(<<" ">>, cs) : cs \in ChunkSeqs}

(***************************************************************************)
(* ClassificationService._classify_fallback                                *)
(***************************************************************************)
\* the last word of a keyword (the keyword itself when it has no space)
LastWord(kw) ==
    LET spaces == {i \in 1..Len(kw) : kw[i] = " "} IN
    IF spaces = {} THEN kw
    ELSE SubSeq(kw, (CHOOSE i \in spaces : \A j \in spaces : j <= i) + 1, Len(kw))

\* MatchCount that counts a keyword as soon as its last word occurs in the text
MatchCountLastWord(keywords, text_lower) ==
    Cardinality({i \in 1..Len(keywords) :
                    IsSubstring(LastWord(Lower(keywords[i])), text_lower)})

\* sum(1 for kw in keywords if kw.lower() in text_lower)
MatchCount(keywords, text_lower) ==
    Cardinality({i \in 1..Len(keywords) : IsSubstring(Lower(keywords[i]), text_lower)})

\* score = match_count / len(keywords) if keywords else 0, in units of 1/ScoreUnit
RawScore(keywords, text_lower) ==
    IF keywords # <<>>
    THEN (MatchCount(keywords, text_lower) * ScoreUnit) \div Len(keywords)
    ELSE 0

\* the scores dict after the first loop of _classify_fallback
RawScores(text) ==
    LET text_lower == Lower(text) IN
    [c \in CategorySet |-> RawScore(OFFENCE_CATEGORIES[c], text_lower)]

RECURSIVE SumOver(_, _)
\* sum(scores.values())
SumOver(order, f) ==
    IF order = <<>> THEN 0 ELSE f[Head(order)] + SumOver(Tail(order), f)

\* NormalizedScores without the `else: scores["Other"] = 1.0` branch
NormalizedScoresNoDefault(raw) ==
    LET total_score == SumOver(Categories, raw) IN
    IF total_score > 0
    THEN [c \in CategorySet |-> Frac(raw[c], total_score)]
    ELSE [c \in CategorySet |-> Frac(0, 1)]

\* "Normalize scores": divide by the total, or give Other 1.0 when nothing matched
NormalizedScores(raw) ==
    LET total_score == SumOver(Categories, raw) IN
    IF total_score > 0
    THEN [c \in CategorySet |-> Frac(raw[c], total_score)]
    ELSE [c \in CategorySet |-> IF c = "Other" THEN Frac(1, 1) ELSE Frac(0, 1)]

\* the 0.2 of `if top_confidence < 0.2:`
MinTopConfidence == Frac(2, 10)
\* the 0.5 of `top_confidence = 0.5`
OtherConfidence == Frac(5, 10)

\* FallbackTop without the `if top_confidence < 0.2:` override
FallbackTopNoOverride(scores) ==
    LET top_category == MaxKey(Categories, scores)
    IN  ClassificationResult(top_category, scores[top_category], scores)

\* "Get top prediction" and "Ensure minimum confidence for Other"
FallbackTop(scores) ==
    LET top_category == MaxKey(Categories, scores)
        top_confidence == scores[top_category]
    IN  IF FLess(top_confidence, MinTopConfidence)
        THEN ClassificationResult("Other", OtherConfidence, scores)
        ELSE ClassificationResult(top_category, top_confidence, scores)

\* _classify_fallback, tabulated over the texts of the model
classify_fallback == [text \in Texts |-> FallbackTop(NormalizedScores(RawScores(text)))]

(***************************************************************************)
(* ClassificationService._classify_zero_shot                               *)
(***************************************************************************)
\* the six candidate labels with one of them moved to the front
MoveToFront(i) ==
    <<ZERO_SHOT_LABELS[i]>> \o SelectSeq(ZERO_SHOT_LABELS, LAMBDA l : l # ZERO_SHOT_LABELS[i])

\* score lists the pipeline may return (multi_label=False: a soft-max over the
\* candidate labels, sorted in descending order), in hundredths
ZeroShotScoreLists ==
    { <<85, 5, 4, 3, 2, 1>>, <<30, 30, 10, 10, 10, 10>>, <<18, 18, 16, 16, 16, 16>> }

\* what self.classifier(text, candidate_labels=ZERO_SHOT_LABELS, multi_label=False)
\* may do: raise, or return the candidate labels sorted by descending score
ZeroShotOutcomes ==
    {[raised |-> TRUE, labels |-> <<>>, scores |-> <<>>]}
    \cup {[raised |-> FALSE, labels |-> MoveToFront(i), scores |-> sc] :
             i \in 1..Len(ZERO_SHOT_LABELS), sc \in ZeroShotScoreLists}

\* the try block of _classify_zero_shot on a returned pipeline result
ZeroShotResult(result) ==
    LET n == Len(result.labels)
        keys == {MappedLabel(result.labels[i]) : i \in 1..n}
        \* scores[mapped_label] = score: a later pair overwrites an earlier one
        lastIdx(c) == CHOOSE i \in 1..n :
                         /\ MappedLabel(result.labels[i]) = c
                         /\ \A j \in (i + 1)..n : MappedLabel(result.labels[j]) # c
        scores == [c \in keys |-> Frac(result.scores[lastIdx(c)], 100)]
        top_label == MappedLabel(result.labels[1])
        top_confidence == Frac(result.scores[1], 100)
    IN  ClassificationResult(top_label, top_confidence, scores)

classify_zero_shot(text, outcome) ==
    IF outcome.raised THEN classify_fallback[text] ELSE ZeroShotResult(outcome)

(***************************************************************************)
(* ClassificationService._classify_similarity                              *)
(***************************************************************************)
\* cosine similarities in halves: 0 is 0.0, 1 is 0.5, 2 is 1.0
SimilarityVectors ==
    {[c \in CategorySet |-> 0]}
    \cup {[c \in CategorySet |-> IF c = a THEN 2 ELSE IF c = "Cheating" THEN 1 ELSE 0] :
             a \in CategorySet}

\* what encoding the text and taking the cosine similarities may do
SimilarityOutcomes ==
    {[raised |-> TRUE, sims |-> [c \in CategorySet |-> 0]]}
    \cup {[raised |-> FALSE, sims |-> v] : v \in SimilarityVectors}

\* np.exp(x) for x = 0.0, -0.5, -1.0 (x in halves), in thousandths
ExpMilli(x) ==
    CASE x = 0  -> 1000
      [] x = -1 -> 607
      [] x = -2 -> 368

\* Python's max over a non-empty list of numbers
MaxOf(S) == CHOOSE m \in S : \A x \in S : x <= m

\* the try block of _classify_similarity once the text is encoded; embeddings is
\* the key list of self.category_embeddings (non-empty)
SimilarityResult(embeddings, sims) ==
    LET keys == {embeddings[i] : i \in 1..Len(embeddings)}
        top == MaxOf({sims[c] : c \in keys})
        exp_scores == [c \in keys |-> ExpMilli(sims[c] - top)]
        exp_sum == SumOver(embeddings, exp_scores)
        scores == [c \in keys |-> Frac(exp_scores[c], exp_sum)]
        top_category == MaxKey(embeddings, scores)
    IN  ClassificationResult(top_category, scores[top_category], scores)

\* classify_similarity with an except clause that answers a fixed default result
\* instead of calling _classify_fallback
classify_similarity_default(text, embeddings, outcome) ==
    IF outcome.raised \/ embeddings = <<>>
    THEN ClassificationResult("Other", Frac(1, 1),
             [c \in CategorySet |-> IF c = "Other" THEN Frac(1, 1) ELSE Frac(0, 1)])
    ELSE SimilarityResult(embeddings, outcome.sims)

\* np.max of an empty array raises ValueError, which the except clause catches
classify_similarity(text, embeddings, outcome) ==
    IF outcome.raised \/ embeddings = <<>>
    THEN classify_fallback[text]
    ELSE SimilarityResult(embeddings, outcome.sims)

(***************************************************************************)
(* ClassificationService.classify and get_confidence_level                 *)
(***************************************************************************)
\* the if / elif / else of classify
Dispatch(clf, st_model) ==
    IF clf # "None" THEN "zero_shot"
    ELSE IF st_model # "None" THEN "similarity"
    ELSE "fallback"

\* get_confidence_level with the first comparison written `confidence > 0.8`
get_confidence_level_strict(confidence) ==
    IF FLess(Frac(8, 10), confidence) THEN "High"
    ELSE IF FGeq(confidence, Frac(5, 10)) THEN "Medium"
    ELSE "Low"

get_confidence_level(confidence) ==
    IF FGeq(confidence, Frac(8, 10)) THEN "High"
    ELSE IF FGeq(confidence, Frac(5, 10)) THEN "Medium"
    ELSE "Low"

\* confidences get_confidence_level is called with
GradeInputs ==
    {Frac(n, 100000) : n \in {0, 49999, 50000, 50001, 79999, 80000, 80001, 100000}}
    \cup {Frac(n, 100) : n \in {18, 30, 50, 85}}

NoResult == ClassificationResult("none", Frac(0, 1), <<>>)

\* a classify call as a history record
ClassifyCall(text, strategy, raised, result) ==
    [op |-> "classify", text |-> text, strategy |-> strategy, raised |-> raised,
     result |-> result, confidence |-> result.confidence, level |-> "none"]

\* a get_confidence_level call as a history record
GradeCall(confidence, level) ==
    [op |-> "get_confidence_level", text |-> <<>>, strategy |-> "none",
     raised |-> FALSE, result |-> NoResult, confidence |-> confidence, level |-> level]

NoCall == [op |-> "none", text |-> <<>>, strategy |-> "none", raised |-> FALSE,
           result |-> NoResult, confidence |-> Frac(0, 1), level |-> "none"]

ClsInit ==
    /\ cls_pc = "load_zero_shot"
    /\ classifier = "None"
    /\ sentence_model = "None"
    /\ use_zero_shot = TRUE
    /\ category_embeddings = <<>>
    /\ load_log = <<>>
    /\ call = NoCall

\* _load_zero_shot_classifier returns: self.classifier is the pipeline
LoadZeroShotOk ==
    /\ cls_pc = "load_zero_shot"
    /\ classifier' = "pipeline"
    /\ load_log' = Append(load_log, "zero_shot_ok")
    /\ cls_pc' = "ready"
    /\ UNCHANGED <<sentence_model, use_zero_shot, category_embeddings, call>>
    /\ UNCHANGED <<ner_vars, getter_vars, app_vars>>

\* _load_zero_shot_classifier raises: the first except clause is entered
LoadZeroShotFail ==
    /\ cls_pc = "load_zero_shot"
    /\ load_log' = Append(load_log, "zero_shot_failed")
    /\ cls_pc' = "load_sentence_transformer"
    /\ UNCHANGED <<classifier, sentence_model, use_zero_shot, category_embeddings,
                   call>>
    /\ UNCHANGED <<ner_vars, getter_vars, app_vars>>

\* SentenceTransformer('all-MiniLM-L6-v2') returns: the model is stored,
\* use_zero_shot is cleared and _compute_category_embeddings starts with {}
LoadSentenceTransformerOk ==
    /\ cls_pc = "load_sentence_transformer"
    /\ sentence_model' = "model"
    /\ use_zero_shot' = FALSE
    /\ category_embeddings' = <<>>
    /\ load_log' = Append(load_log, "sentence_model_set")
    /\ cls_pc' = "compute_category_embeddings"
    /\ UNCHANGED <<classifier, call>>
    /\ UNCHANGED <<ner_vars, getter_vars, app_vars>>

\* SentenceTransformer(...) raises: the inner except clause clears use_zero_shot
LoadSentenceTransformerFail ==
    /\ cls_pc = "load_sentence_transformer"
    /\ use_zero_shot' = FALSE
    /\ load_log' = Append(load_log, "sentence_transformer_failed")
    /\ cls_pc' = "ready"
    /\ UNCHANGED <<classifier, sentence_model, category_embeddings, call>>
    /\ UNCHANGED <<ner_vars, getter_vars, app_vars>>

\* one iteration of the loop of _compute_category_embeddings whose encode returns
ComputeEmbeddingOk ==
    /\ cls_pc = "compute_category_embeddings"
    /\ Len(category_embeddings) < Len(Categories)
    /\ category_embeddings' =
          Append(category_embeddings, Categories[Len(category_embeddings) + 1])
    /\ IF Len(category_embeddings) + 1 = Len(Categories)
       THEN /\ cls_pc' = "ready"
            /\ load_log' = Append(load_log, "sentence_transformer_ok")
       ELSE /\ cls_pc' = cls_pc
            /\ load_log' = load_log
    /\ UNCHANGED <<classifier, sentence_model, use_zero_shot, call>>
    /\ UNCHANGED <<ner_vars, getter_vars, app_vars>>

\* one iteration whose encode raises: the exception leaves
\* _load_sentence_transformer and the inner except clause clears use_zero_shot
ComputeEmbeddingFail ==
    /\ cls_pc = "compute_category_embeddings"
    /\ Len(category_embeddings) < Len(Categories)
    /\ use_zero_shot' = FALSE
    /\ load_log' = Append(load_log, "sentence_transformer_failed")
    /\ cls_pc' = "ready"
    /\ UNCHANGED <<classifier, sentence_model, category_embeddings, call>>
    /\ UNCHANGED <<ner_vars, getter_vars, app_vars>>

\* ClassifyZeroShot if the except clause also dropped the classifier, so that
\* later calls went straight to the keyword fallback
ClassifyZeroShotDropping ==
    /\ cls_pc = "ready"
    /\ Dispatch(classifier, sentence_model) = "zero_shot"
    /\ \E text \in Texts, outcome \in ZeroShotOutcomes :
          /\ call' = ClassifyCall(text, "zero_shot", outcome.raised,
                                  classify_zero_shot(text, outcome))
          /\ classifier' = IF outcome.raised THEN "None" ELSE classifier
    /\ UNCHANGED <<cls_pc, sentence_model, use_zero_shot, category_embeddings, load_log>>
    /\ UNCHANGED <<ner_vars, getter_vars, app_vars>>

\* classify(text) taking the branch `if self.classifier is not None`
ClassifyZeroShot ==
    /\ cls_pc = "ready"
    /\ Dispatch(classifier, sentence_model) = "zero_shot"
    /\ \E text \in Texts, outcome \in ZeroShotOutcomes :
          call' = ClassifyCall(text, "zero_shot", outcome.raised,
                               classify_zero_shot(text, outcome))
    /\ UNCHANGED <<cls_pc, classifier, sentence_model, use_zero_shot,
                   category_embeddings, load_log>>
    /\ UNCHANGED <<ner_vars, getter_vars, app_vars>>

\* classify(text) taking the branch `elif self.sentence_model is not None`
ClassifySimilarity ==
    /\ cls_pc = "ready"
    /\ Dispatch(classifier, sentence_model) = "similarity"
    /\ \E text \in Texts, outcome \in SimilarityOutcomes :
          call' = ClassifyCall(text, "similarity",
                               outcome.raised \/ category_embeddings = <<>>,
                               classify_similarity(text, category_embeddings, outcome))
    /\ UNCHANGED <<cls_pc, classifier, sentence_model, use_zero_shot,
                   category_embeddings, load_log>>
    /\ UNCHANGED <<ner_vars, getter_vars, app_vars>>

\* classify(text) taking the `else` branch
ClassifyFallback ==
    /\ cls_pc = "ready"
    /\ Dispatch(classifier, sentence_model) = "fallback"
    /\ \E text \in Texts :
          call' = ClassifyCall(text, "fallback", FALSE, classify_fallback[text])
    /\ UNCHANGED <<cls_pc, classifier, sentence_model, use_zero_shot,
                   category_embeddings, load_log>>
    /\ UNCHANGED <<ner_vars, getter_vars, app_vars>>

\* get_confidence_level(confidence) on the constructed service
GetConfidenceLevel ==
    /\ cls_pc = "ready"
    /\ \E confidence \in GradeInputs \cup {call.confidence} :
          call' = GradeCall(confidence, get_confidence_level(confidence))
    /\ UNCHANGED <<cls_pc, classifier, sentence_model, use_zero_shot,
                   category_embeddings, load_log>>
    /\ UNCHANGED <<ner_vars, getter_vars, app_vars>>

ClsNext ==
    \/ LoadZeroShotOk
    \/ LoadZeroShotFail
    \/ LoadSentenceTransformerOk
    \/ LoadSentenceTransformerFail
    \/ ComputeEmbeddingOk
    \/ ComputeEmbeddingFail
    \/ ClassifyZeroShot
    \/ ClassifySimilarity
    \/ ClassifyFallback
    \/ GetConfidenceLevel

(***************************************************************************)
(* get_nlp_service / get_classification_service: the module-level          *)
(* singletons, called from several threads.                                *)
(***************************************************************************)
\* the two modules that keep a singleton
Services == {"nlp", "classification"}

Threads == 1..MaxThreads

\* a thread outside the getter
IdleCaller == [pc |-> "idle", svc |-> "nlp", made |-> 0]

GetterInit ==
    /\ singleton = [s \in Services |-> 0]
    /\ constructed = [s \in Services |-> 0]
    /\ caller = [t \in Threads |-> IdleCaller]
    /\ returned = [s \in Services |-> {}]

\* thread t enters a getter and evaluates `if _service is None:`
GetServiceCheck(t) ==
    /\ caller[t].pc = "idle"
    /\ \E s \in Services :
          caller' = [caller EXCEPT ![t] =
                        [pc |-> IF singleton[s] = 0 THEN "construct" ELSE "return",
                         svc |-> s, made |-> 0]]
    /\ UNCHANGED <<singleton, constructed, returned>>
    /\ UNCHANGED <<ner_vars, cls_vars, app_vars>>

\* thread t evaluates NLPService() / ClassificationService(): a new instance
\* is constructed and its models are loaded
GetServiceConstruct(t) ==
    /\ caller[t].pc = "construct"
    /\ constructed' = [constructed EXCEPT ![caller[t].svc] = @ + 1]
    /\ caller' = [caller EXCEPT ![t].pc = "store",
                                ![t].made = constructed[caller[t].svc] + 1]
    /\ UNCHANGED <<singleton, returned>>
    /\ UNCHANGED <<ner_vars, cls_vars, app_vars>>

\* thread t assigns the new instance to the module global
GetServiceStore(t) ==
    /\ caller[t].pc = "store"
    /\ singleton' = [singleton EXCEPT ![caller[t].svc] = caller[t].made]
    /\ caller' = [caller EXCEPT ![t].pc = "return"]
    /\ UNCHANGED <<constructed, returned>>
    /\ UNCHANGED <<ner_vars, cls_vars, app_vars>>

\* thread t executes `return _service`: the global is read again
GetServiceReturn(t) ==
    /\ caller[t].pc = "return"
    /\ returned' = [returned EXCEPT ![caller[t].svc] = @ \cup {singleton[caller[t].svc]}]
    /\ caller' = [caller EXCEPT ![t] = IdleCaller]
    /\ UNCHANGED <<singleton, constructed>>
    /\ UNCHANGED <<ner_vars, cls_vars, app_vars>>

GetterNext ==
    \/ \E t \in Threads : GetServiceCheck(t)
    \/ \E t \in Threads : GetServiceConstruct(t)
    \/ \E t \in Threads : GetServiceStore(t)
    \/ \E t \in Threads : GetServiceReturn(t)

(***************************************************************************)
(* app.py: start-up, POST /generate_fir, GET /fir_history, GET /health.    *)
(***************************************************************************)
\* request.get_json() as a dict from keys to strings; the empty dict stands
\* for both None and {} (`if not json_data` treats them alike)
EmptyDict == [k \in {} |-> <<>>]
NameA == <<"A">>
Blanks == <<" ", " ">>
Complaint == <<"A", " ", "h", "i", "t">>
JsonBodies ==
    {EmptyDict,
     [k \in {"name"} |-> NameA],
     [k \in {"name", "description"} |-> IF k = "name" THEN NameA ELSE Blanks],
     [k \in {"description"} |-> Complaint],
     [k \in {"name", "description"} |-> IF k = "name" THEN NameA ELSE Complaint]}

\* dict.get(key, default)
DictGet(d, key, default) == IF key \in DOMAIN d THEN d[key] ELSE default

\* the keyword arguments get_nlp_service accepts (it is declared without parameters)
GetNlpServiceParams == {}
\* the keyword arguments initialize_services passes to get_nlp_service
InitNlpKwargs == {"use_transformers"}
\* the keyword arguments get_classification_service accepts / is passed
GetClassificationServiceParams == {}
InitClassificationKwargs == {}

\* Python raises TypeError for a keyword argument the function does not declare
RaisesTypeError(kwargs, params) == ~(kwargs \subseteq params)

\* the keys of the dict extract_entities returns
EntityKeys == DOMAIN EmptyEntities

\* an exception propagating out of a call / a normal return
Raised(error) == [raised |-> TRUE, error |-> error, name |-> <<>>]
ReturnedResult(name) == [raised |-> FALSE, error |-> "", name |-> name]

\* process_complaint(data): the attribute access on the two globals, then the
\* subscripts entities["dates"] and entities["times"]
process_complaint(data) ==
    IF nlp_service = "None" THEN Raised("AttributeError")
    ELSE IF classification_service = "None" THEN Raised("AttributeError")
    ELSE IF "dates" \notin EntityKeys \/ "times" \notin EntityKeys THEN Raised("KeyError")
    ELSE ReturnedResult(DictGet(data, "name", <<>>))

\* the 50 of fir_history[-50:]
HistoryLimit == 50

\* Python's xs[-n:]
LastN(xs, n) == IF Len(xs) <= n THEN xs ELSE SubSeq(xs, Len(xs) - n + 1, Len(xs))

\* a response, with the fields of the JSON bodies the properties look at
Response(endpoint, json, status, success, error, fir_id, count, history, health) ==
    [endpoint |-> endpoint, json |-> json, status |-> status, success |-> success,
     error |-> error, fir_id |-> fir_id, count |-> count, history |-> history,
     health |-> health]

\* the history_entry dict (timestamp, offence_type and severity_level left out)
HistoryEntry(fir_id, name) == [fir_id |-> fir_id, name |-> name, status |-> "draft"]

AppInit ==
    /\ main_pc = "loaded"
    /\ nlp_service = "None"
    /\ classification_service = "None"
    /\ fir_history = <<>>
    /\ next_fir = 0
    /\ responses = <<>>

\* the server answers requests
Serving == main_pc \in {"serving", "initialized"}

\* `python app.py`: the __main__ block calls initialize_services() and then app.run
RunMain ==
    /\ main_pc = "loaded"
    /\ IF RaisesTypeError(InitNlpKwargs, GetNlpServiceParams)
       THEN /\ main_pc' = "crashed"
            /\ UNCHANGED <<nlp_service, classification_service>>
       ELSE IF RaisesTypeError(InitClassificationKwargs, GetClassificationServiceParams)
       THEN /\ main_pc' = "crashed"
            /\ nlp_service' = "NLPService"
            /\ UNCHANGED classification_service
       ELSE /\ main_pc' = "initialized"
            /\ nlp_service' = "NLPService"
            /\ classification_service' = "ClassificationService"
    /\ UNCHANGED <<fir_history, next_fir, responses>>
    /\ UNCHANGED <<ner_vars, cls_vars, getter_vars>>

\* the module is imported by a WSGI server (`flask run`, gunicorn): the
\* __main__ block does not run and `app` is served as the import left it
ServeImported ==
    /\ main_pc = "loaded"
    /\ main_pc' = "serving"
    /\ UNCHANGED <<nlp_service, classification_service, fir_history, next_fir, responses>>
    /\ UNCHANGED <<ner_vars, cls_vars, getter_vars>>

\* GenerateFir with the history entry stored before the complaint is processed
GenerateFirStoringFirst ==
    /\ Serving
    /\ Len(responses) < MaxRequests
    /\ \E json_data \in JsonBodies :
          LET description == DictGet(json_data, "description", <<>>) IN
          IF json_data = EmptyDict
          THEN /\ responses' = Append(responses,
                      Response("generate_fir", json_data, 400, FALSE,
                               "No JSON data provided", 0, 0, <<>>, ""))
               /\ UNCHANGED <<fir_history, next_fir>>
          ELSE IF description = <<>> \/ Strip(description) = <<>>
          THEN /\ responses' = Append(responses,
                      Response("generate_fir", json_data, 400, FALSE,
                               "Description field is required and cannot be empty",
                               0, 0, <<>>, ""))
               /\ UNCHANGED <<fir_history, next_fir>>
          ELSE LET result == process_complaint(json_data) IN
               /\ next_fir' = next_fir + 1
               /\ fir_history' = Append(fir_history,
                                        HistoryEntry(next_fir + 1,
                                                     DictGet(json_data, "name", <<>>)))
               /\ responses' = Append(responses,
                      IF result.raised
                      THEN Response("generate_fir", json_data, 500, FALSE,
                                    result.error, 0, 0, <<>>, "")
                      ELSE Response("generate_fir", json_data, 200, TRUE, "",
                                    next_fir + 1, 0, <<>>, ""))
    /\ UNCHANGED <<main_pc, nlp_service, classification_service>>
    /\ UNCHANGED <<ner_vars, cls_vars, getter_vars>>

\* POST /generate_fir
GenerateFir ==
    /\ Serving
    /\ Len(responses) < MaxRequests
    /\ \E json_data \in JsonBodies :
          LET description == DictGet(json_data, "description", <<>>) IN
          IF json_data = EmptyDict
          THEN /\ responses' = Append(responses,
                      Response("generate_fir", json_data, 400, FALSE,
                               "No JSON data provided", 0, 0, <<>>, ""))
               /\ UNCHANGED <<fir_history, next_fir>>
          ELSE IF description = <<>> \/ Strip(description) = <<>>
          THEN /\ responses' = Append(responses,
                      Response("generate_fir", json_data, 400, FALSE,
                               "Description field is required and cannot be empty",
                               0, 0, <<>>, ""))
               /\ UNCHANGED <<fir_history, next_fir>>
          ELSE LET result == process_complaint(json_data) IN
               IF result.raised
               THEN /\ responses' = Append(responses,
                           Response("generate_fir", json_data, 500, FALSE,
                                    result.error, 0, 0, <<>>, ""))
                    /\ UNCHANGED <<fir_history, next_fir>>
               ELSE /\ next_fir' = next_fir + 1
                    /\ fir_history' = Append(fir_history,
                                             HistoryEntry(next_fir + 1, result.name))
                    /\ responses' = Append(responses,
                           Response("generate_fir", json_data, 200, TRUE, "",
                                    next_fir + 1, 0, <<>>, ""))
    /\ UNCHANGED <<main_pc, nlp_service, classification_service>>
    /\ UNCHANGED <<ner_vars, cls_vars, getter_vars>>

\* GET /fir_history
GetFirHistory ==
    /\ Serving
    /\ Len(responses) < MaxRequests
    /\ responses' = Append(responses,
            Response("fir_history", EmptyDict, 200, TRUE, "", 0,
                     Len(fir_history), LastN(fir_history, HistoryLimit), ""))
    /\ UNCHANGED <<main_pc, nlp_service, classification_service, fir_history, next_fir>>
    /\ UNCHANGED <<ner_vars, cls_vars, getter_vars>>

\* GET /health
HealthCheck ==
    /\ Serving
    /\ Len(responses) < MaxRequests
    /\ LET services_ready == nlp_service # "None" /\ classification_service # "None" IN
       responses' = Append(responses,
            Response("health", EmptyDict, IF services_ready THEN 200 ELSE 503,
                     TRUE, "", 0, 0, <<>>,
                     IF services_ready THEN "healthy" ELSE "initializing"))
    /\ UNCHANGED <<main_pc, nlp_service, classification_service, fir_history, next_fir>>
    /\ UNCHANGED <<ner_vars, cls_vars, getter_vars>>

AppNext ==
    \/ RunMain
    \/ ServeImported
    \/ GenerateFir
    \/ GetFirHistory
    \/ HealthCheck

(***************************************************************************)
(* Specifications.                                                         *)
(***************************************************************************)
Init == NerInit /\ ClsInit /\ GetterInit /\ AppInit

\* the singleton getters alone, called from MaxThreads threads
SpecGetters == Init /\ [][GetterNext]_vars

\* the Flask application alone
SpecApp == Init /\ [][AppNext]_vars

\* the entity aggregation alone
SpecNER == Init /\ [][NerNext]_vars

\* the classification service alone
SpecCls == Init /\ [][ClsNext]_vars

(***************************************************************************)
(* Properties of the entity aggregation (checked under SpecNER).           *)
(***************************************************************************)
\* the entity type a result list collects
ListType(k) ==
    CASE k = "persons" -> "PER"
      [] k = "locations" -> "LOC"
      [] k = "organizations" -> "ORG"

\* the surface string of a closed span
SpanSurface(sp) == EntityText(sp.text)

\* twice the sum of a closed span's scores against a hundred times their number:
\* the span's average compared with 0.5 without a division
AvgAtLeastHalf(sp) == sp.scores # <<>> /\ 2 * SumSeq(sp.scores) >= 100 * Len(sp.scores)
AvgExactlyHalf(sp) == sp.scores # <<>> /\ 2 * SumSeq(sp.scores) = 100 * Len(sp.scores)

\* a closed span that qualifies for the result list k
Qualifies(sp, k) ==
    /\ sp.type = ListType(k)
    /\ AvgAtLeastHalf(sp)
    /\ Len(SpanSurface(sp)) > 1

\* the surfaces of the qualifying spans of list k, in the order the spans were closed
QualifyingSurfaces(k) ==
    LET q == SelectSeq(closed, LAMBDA sp : Qualifies(sp, k))
    IN  [i \in 1..Len(q) |-> SpanSurface(q[i])]

\* position of the first occurrence of x in the sequence q
FirstIndex(q, x) == CHOOSE i \in 1..Len(q) : q[i] = x /\ \A j \in 1..(i - 1) : q[j] # x

\* C1: when extract_entities has returned, each of the three lists holds no
\* surface string twice, holds exactly the surfaces of the qualifying spans of
\* its type, and lists them in the order in which the first qualifying span of
\* each surface was closed during the scan.
C1_DedupKeepsFirstOccurrenceOrder ==
    ner_pc = "done" =>
        \A k \in DOMAIN entities :
            LET out == entities[k]
                q == QualifyingSurfaces(k)
            IN  /\ \A i, j \in 1..Len(out) : i # j => out[i] # out[j]
                /\ {out[i] : i \in 1..Len(out)} = {q[i] : i \in 1..Len(q)}
                /\ \A i, j \in 1..Len(out) :
                      i < j => FirstIndex(q, out[i]) < FirstIndex(q, out[j])

\* C1 witness: a returned call in which the persons list received a surface, a
\* different one, and the first one again, and returns the two in that order
C1_Witness ==
    /\ ner_pc = "done"
    /\ Len(raw_entities.persons) = 3
    /\ raw_entities.persons[1] = raw_entities.persons[3]
    /\ raw_entities.persons[1] # raw_entities.persons[2]
    /\ entities.persons = <<raw_entities.persons[1], raw_entities.persons[2]>>

\* the list of k as the save sites have filled it so far (before the Deduplicate loop)
Collected(k) == IF ner_pc = "done" THEN raw_entities[k] ELSE entities[k]

\* C2: every entity in the output comes from a closed span of its list's type
\* whose average score is >= 0.5; a span whose average is below 0.5 adds nothing
\* (the number of entries collected for a list is the number of its qualifying
\* spans); and a span of type PER/LOC/ORG whose average is exactly 0.5 and whose
\* surface is longer than one character is in the list of its type.
C2_ConfidenceFloor ==
    \A k \in DOMAIN entities :
        /\ \A i \in 1..Len(entities[k]) :
              \E n \in 1..Len(closed) :
                  /\ closed[n].type = ListType(k)
                  /\ SpanSurface(closed[n]) = entities[k][i]
                  /\ AvgAtLeastHalf(closed[n])
        /\ Len(Collected(k)) = Len(QualifyingSurfaces(k))
        /\ \A n \in 1..Len(closed) :
              (/\ closed[n].type = ListType(k)
               /\ AvgExactlyHalf(closed[n])
               /\ Len(SpanSurface(closed[n])) > 1)
              => InSeq(SpanSurface(closed[n]), entities[k])

\* C2 witness: a returned call that closed a two-token person span with scores
\* 0.2 and 0.8 (average exactly 0.5) and returns its surface, and also closed a
\* person span with average below 0.5
C2_Witness ==
    /\ ner_pc = "done"
    /\ \E n \in 1..Len(closed) :
          /\ closed[n].type = "PER"
          /\ closed[n].scores = <<20, 80>>
          /\ InSeq(SpanSurface(closed[n]), entities.persons)
    /\ \E n \in 1..Len(closed) :
          /\ closed[n].type = "PER"
          /\ ~AvgAtLeastHalf(closed[n])
          /\ Len(SpanSurface(closed[n])) > 1

\* the triples s[b], ..., s[Len(s)] are one B- triple followed only by I-
\* triples of its type, none of them a sentinel token
IsRun(s, b) ==
    /\ b \in 1..Len(s)
    /\ StartsWithB(s[b].label)
    /\ \A i \in b..Len(s) : s[i].token \notin SpecialTokens
    /\ \A i \in (b + 1)..Len(s) :
          StartsWithI(s[i].label) /\ EntityType(s[i].label) = EntityType(s[b].label)

\* the span made of all the triples s[b], ..., s[Len(s)]
RunSpan(s, b) ==
    [type   |-> EntityType(s[b].label),
     text   |-> [i \in 1..(Len(s) - b + 1) |-> s[b + i - 1].token],
     scores |-> [i \in 1..(Len(s) - b + 1) |-> s[b + i - 1].score]]

\* this step consumes one more triple, a non-sentinel token labelled O
ConsumesOutsideToken ==
    /\ Len(input') = Len(input) + 1
    /\ input'[Len(input')].label = "O"
    /\ input'[Len(input')].token \notin SpecialTokens

\* the surface "Johnson"
Johnson == <<"J", "o", "h", "n", "s", "o", "n">>

Classified == call.op = "classify"

\* the result of the last classify call was produced by _classify_fallback:
\* directly, or through the except clause of the latched strategy
FromFallback == Classified /\ (call.strategy = "fallback" \/ call.raised)

\* a score <<n, d>> is below 0.2 / at least 0.2
BelowFloor(x) == 5 * x[1] < x[2]

\* label is a key of all_scores whose value no other key's value exceeds
IsArgMax(res) ==
    /\ res.label \in DOMAIN res.all_scores
    /\ \A c \in DOMAIN res.all_scores :
          res.all_scores[c][1] * res.all_scores[res.label][2]
             <= res.all_scores[res.label][1] * res.all_scores[c][2]

\* the override case: every score of the result is below 0.2
TopBelowFloor(res) == \A c \in DOMAIN res.all_scores : BelowFloor(res.all_scores[c])

\* C3 (as claimed): whichever strategy produced it, the all_scores of a
\* classify result has exactly the six canonical categories as keys.
C3_SixKeys == Classified => DOMAIN call.result.all_scores = CategorySet

\* C4: in every result classify returns, label is a key of all_scores with the
\* maximum value and confidence equals that value, unless the result comes from
\* the keyword fallback and its top score is below 0.2.
C4_LabelIsArgMax ==
    Classified =>
        \/ FromFallback /\ TopBelowFloor(call.result)
        \/ /\ IsArgMax(call.result)
           /\ call.result.confidence = call.result.all_scores[call.result.label]

\* C4 witness: a similarity result (no exception) whose label is not the first
\* category of the table
C4_Witness ==
    /\ Classified
    /\ call.strategy = "similarity" /\ ~call.raised
    /\ call.result.label = "Harassment"
    /\ Len(category_embeddings) = Len(Categories)

\* the load steps _load_models has run
Logged(step) == InSeq(step, load_log)

\* the strategy classify dispatches to in the current state
Latched ==
    IF classifier # "None" THEN "ZeroShot"
    ELSE IF sentence_model # "None" THEN "Embedding"
    ELSE "Keyword"

\* the whole embedding load (_load_sentence_transformer) returned / raised
EmbeddingLoadOk == Logged("sentence_transformer_ok")
EmbeddingLoadFailed == Logged("sentence_transformer_failed")

\* C5 (as claimed): when construction has finished, ZeroShot is latched iff the
\* zero-shot load succeeded, Embedding iff the zero-shot load failed and the
\* embedding load succeeded, Keyword iff both loads failed; the embedding load
\* is attempted only after the zero-shot load failed.
C5_LoadChain ==
    /\ (Logged("sentence_model_set") \/ EmbeddingLoadFailed) => Logged("zero_shot_failed")
    /\ cls_pc = "ready" =>
          /\ (Latched = "ZeroShot") <=> Logged("zero_shot_ok")
          /\ (Latched = "Embedding") <=> (Logged("zero_shot_failed") /\ EmbeddingLoadOk)
          /\ (Latched = "Keyword") <=> (Logged("zero_shot_failed") /\ EmbeddingLoadFailed)

\* the fields that make up the latch, and the loading position
latch == <<cls_pc, classifier, sentence_model, use_zero_shot, category_embeddings, load_log>>

\* C6: once construction has finished no step changes the latch or re-runs a
\* load step, and every classify call is dispatched to zero-shot if classifier
\* is set, else to similarity if sentence_model is set, else to the fallback.
C6_LatchIsStable ==
    /\ [][cls_pc = "ready" => latch' = latch]_vars
    /\ [](Classified =>
            call.strategy = (IF classifier # "None" THEN "zero_shot"
                             ELSE IF sentence_model # "None" THEN "similarity"
                             ELSE "fallback"))

\* C6 witness: a zero-shot call whose model invocation raised has returned and
\* the classifier is still latched
C6_Witness ==
    /\ cls_pc = "ready"
    /\ Classified /\ call.strategy = "zero_shot" /\ call.raised
    /\ classifier = "pipeline"

\* C7: a classify call whose latched model invocation raised returns exactly
\* what the keyword fallback gives for the same text; the step after it leaves
\* the latch as it was, and a classify call made next is dispatched to the same
\* latched strategy again.
C7_PerCallDegradation ==
    /\ []((Classified /\ call.raised /\ call.strategy \in {"zero_shot", "similarity"})
            => call.result = classify_fallback[call.text])
    /\ [][(Classified /\ call.raised)
            => /\ latch' = latch
               /\ (call'.op = "classify" => call'.strategy = call.strategy)]_vars

\* C7 witness: the embedding strategy is latched with all six embeddings, the
\* encoding of a text with a Theft keyword raised, and the result is Theft
C7_Witness ==
    /\ Classified /\ call.raised /\ call.strategy = "similarity"
    /\ Len(category_embeddings) = Len(Categories)
    /\ call.result.label = "Theft"
    /\ call.text # <<>>

\* C8: get_confidence_level returns High iff the confidence is >= 0.8, Medium
\* iff it is >= 0.5 and < 0.8, Low iff it is < 0.5 (so 0.8 -> High, 0.79999 ->
\* Medium, 0.5 -> Medium, 0.49999 -> Low), and the call changes no field of the
\* service.
C8_GraderBoundaries ==
    /\ [](call.op = "get_confidence_level" =>
            LET n == call.confidence[1]
                d == call.confidence[2]
            IN  /\ call.level = "High" <=> 10 * n >= 8 * d
                /\ call.level = "Medium" <=> (10 * n >= 5 * d /\ 10 * n < 8 * d)
                /\ call.level = "Low" <=> 10 * n < 5 * d
                /\ call.confidence = <<80000, 100000>> => call.level = "High"
                /\ call.confidence = <<79999, 100000>> => call.level = "Medium"
                /\ call.confidence = <<50000, 100000>> => call.level = "Medium"
                /\ call.confidence = <<49999, 100000>> => call.level = "Low")
    /\ [][call'.op = "get_confidence_level" => latch' = latch]_vars

\* C8 witness: get_confidence_level(0.79999) has returned Medium
C8_Witness ==
    /\ call.op = "get_confidence_level"
    /\ call.confidence = <<79999, 100000>>
    /\ call.level = "Medium"

\* no keyword of any category occurs in the text as a case-insensitive substring
NoKeywordOccurs(text) ==
    \A c \in CategorySet :
        \A i \in 1..Len(OFFENCE_CATEGORIES[c]) :
            ~IsSubstring(Lower(OFFENCE_CATEGORIES[c][i]), Lower(text))

\* C9: for a text in which no keyword occurs, _classify_fallback returns label
\* Other with confidence 1.0 and all_scores giving 1.0 to Other and 0 to the
\* five other categories.
C9_NoMatchGivesOther ==
    (FromFallback /\ NoKeywordOccurs(call.text)) =>
        /\ call.result.label = "Other"
        /\ call.result.confidence = <<1, 1>>
        /\ DOMAIN call.result.all_scores = CategorySet
        /\ \A c \in CategorySet :
              call.result.all_scores[c] = IF c = "Other" THEN <<1, 1>> ELSE <<0, 1>>

\* C9 witness: the keyword fallback is latched and classified the non-empty
\* text "stolen", which contains no keyword
C9_Witness ==
    /\ Classified /\ call.strategy = "fallback"
    /\ call.text = ChunkStolen
    /\ call.result.label = "Other"

\* the scores of a result add up to 1: they share one denominator and their
\* numerators add up to it
SumsToOne(scores) ==
    \E d \in {scores[c][2] : c \in DOMAIN scores} :
        /\ \A c \in DOMAIN scores : scores[c][2] = d
        /\ SumOver(Categories, [c \in CategorySet |-> scores[c][1]]) = d

\* C10: in a result of _classify_fallback, if the largest normalized score is
\* below 0.2 the label is Other and the confidence exactly 0.5 while all_scores
\* stays normalized; otherwise the label is an argmax category and the
\* confidence is its normalized score.
C10_FallbackOverride ==
    FromFallback =>
        /\ DOMAIN call.result.all_scores = CategorySet
        /\ SumsToOne(call.result.all_scores)
        /\ IF TopBelowFloor(call.result)
           THEN /\ call.result.label = "Other"
                /\ call.result.confidence = <<5, 10>>
           ELSE /\ IsArgMax(call.result)
                /\ call.result.confidence = call.result.all_scores[call.result.label]

\* C10 witness: a fallback result in the override case, whose confidence 0.5
\* differs from all_scores["Other"] and whose label is not the only argmax
C10_Witness ==
    /\ FromFallback
    /\ TopBelowFloor(call.result)
    /\ call.result.label = "Other"
    /\ call.result.confidence = <<5, 10>>
    /\ 2 * call.result.all_scores["Other"][1] # call.result.all_scores["Other"][2]
    /\ call.result.all_scores["Other"][1] > 0

(***************************************************************************)
(* extract_entities as a function of the triples it is handed.             *)
(***************************************************************************)
\* the dict and the three accumulators as extract_entities creates them
FreshLocals ==
    [entity |-> "None", text |-> <<>>, scores |-> <<>>, ents |-> EmptyEntities]

\* one pass of the loop body over the triple tok, from the locals loc
ScanStep(loc, tok) ==
    IF tok.token \in SpecialTokens THEN loc
    ELSE IF StartsWithB(tok.label)
    THEN [entity |-> tok.label, text |-> <<tok.token>>, scores |-> <<tok.score>>,
          ents |-> SaveIfOpen(loc.ents, loc.entity, loc.text, loc.scores)]
    ELSE IF StartsWithI(tok.label) /\ loc.entity # "None"
    THEN IF EntityType(tok.label) = EntityType(loc.entity)
         THEN [loc EXCEPT !.text = Append(@, tok.token),
                          !.scores = Append(@, tok.score)]
         ELSE [entity |-> tok.label, text |-> <<tok.token>>, scores |-> <<tok.score>>,
               ents |-> IF loc.text # <<>>
                        THEN SaveEntity(loc.ents, EntityType(loc.entity),
                                        loc.text, loc.scores)
                        ELSE loc.ents]
    ELSE [entity |-> "None", text |-> <<>>, scores |-> <<>>,
          ents |-> SaveIfOpen(loc.ents, loc.entity, loc.text, loc.scores)]

RECURSIVE ScanAll(_, _)
\* the locals after the loop has run over the triples toks, from the locals loc
ScanAll(loc, toks) ==
    IF toks = <<>> THEN loc ELSE ScanAll(ScanStep(loc, Head(toks)), Tail(toks))

\* what extract_entities returns for the triples toks
Returned(toks) ==
    LET loc == ScanAll(FreshLocals, toks)
        saved == SaveIfOpen(loc.ents, loc.entity, loc.text, loc.scores)
    IN  [k \in DOMAIN saved |-> Dedup(saved[k])]

\* C13: whatever calls were made before, the accumulators of a running call are
\* those a first call reaches on the same triples, and the result of a returned
\* call is the one a first call returns on the same triples: the result is a
\* function of the call's own sequence, and nothing of an earlier call is
\* carried into it.
C13_ResultDependsOnInputOnly ==
    /\ ner_pc = "scan" =>
          [entity |-> current_entity, text |-> current_text,
           scores |-> current_scores, ents |-> entities] = ScanAll(FreshLocals, input)
    /\ ner_pc = "done" => entities = Returned(input)

\* C13 witness: the second call made on the service has scanned its triples and
\* returned a location and no person
C13_Witness ==
    /\ calls = 2
    /\ ner_pc = "done"
    /\ current_entity = "None"
    /\ input # <<>>
    /\ entities.persons = <<>>
    /\ entities.locations # <<>>

\* a span is Open: the scan holds a current entity
SpanOpen == current_entity # "None"

\* the open span as a record
OpenSpan == SpanRec(current_entity, current_text, current_scores)

\* this step flushes the open span: it is closed, its surface is added to the
\* list of its type when it qualifies, and nothing else is added to any list
FlushesOpenSpan ==
    /\ closed' = Append(closed, OpenSpan)
    /\ \A k \in DOMAIN entities :
          entities'[k] = IF Qualifies(OpenSpan, k)
                         THEN Append(entities[k], SpanSurface(OpenSpan))
                         ELSE entities[k]

\* after this step the aggregator is Idle with empty accumulators
BecomesIdle ==
    /\ current_entity' = "None"
    /\ current_text' = <<>>
    /\ current_scores' = <<>>

\* this step consumes one more triple, a sentinel token
ConsumesSentinel ==
    /\ Len(input') = Len(input) + 1
    /\ input'[Len(input')].token \in SpecialTokens

\* C19 (as claimed): when a sentinel token ([CLS], [SEP], [PAD]) is scanned
\* while a span is Open, the span is flushed and the aggregator becomes Idle,
\* so that a same-type I- token after the sentinel does not extend the span.
C19_SentinelFlushes ==
    [][(ConsumesSentinel /\ SpanOpen) => (FlushesOpenSpan /\ BecomesIdle)]_vars

\* C20: when a non-sentinel token labelled O is scanned while a span is Open,
\* the span is flushed and the aggregator becomes Idle with empty accumulators;
\* when it is scanned while Idle, the accumulators stay empty and no span is
\* closed and no entity emitted.
C20_OutsideFlushes ==
    /\ [](~SpanOpen => (current_text = <<>> /\ current_scores = <<>>))
    /\ [][ConsumesOutsideToken =>
            IF SpanOpen
            THEN FlushesOpenSpan /\ BecomesIdle
            ELSE UNCHANGED <<current_entity, current_text, current_scores,
                             entities, closed>>]_vars

\* C20 witness: an O token has just been scanned right after a B-PER token, the
\* span of that token is closed, its surface is in persons and the scan is Idle
C20_Witness ==
    /\ ner_pc = "scan"
    /\ Len(input) >= 2
    /\ input[Len(input)].label = "O"
    /\ input[Len(input)].token \notin SpecialTokens
    /\ input[Len(input) - 1].label = "B-PER"
    /\ input[Len(input) - 1].token \notin SpecialTokens
    /\ closed # <<>>
    /\ closed[Len(closed)].text = <<input[Len(input) - 1].token>>
    /\ entities.persons # <<>>
    /\ ~SpanOpen

\* the JSON body has a description that is not blank
NonBlankDescription(json_data) ==
    /\ "description" \in DOMAIN json_data
    /\ Strip(json_data["description"]) # <<>>

\* the number of entries of fir_history that carry the FIR id
EntriesWith(fir_id) ==
    Cardinality({j \in 1..Len(fir_history) : fir_history[j].fir_id = fir_id})

\* C16 (as claimed): every POST /generate_fir whose JSON has a non-blank
\* description (the models being loadable and not failing) is answered 200 with
\* success = true and a FIR id, and exactly one history entry is appended for it.
C16_ValidRequestSucceeds ==
    \A i \in 1..Len(responses) :
        (responses[i].endpoint = "generate_fir"
            /\ NonBlankDescription(responses[i].json)) =>
                /\ responses[i].status = 200
                /\ responses[i].success
                /\ responses[i].fir_id # 0
                /\ EntriesWith(responses[i].fir_id) = 1

\* both globals of app.py hold a service
ServicesSet == nlp_service # "None" /\ classification_service # "None"

\* C18 (as claimed): the models being loadable, initialize_services() completes
\* without error and leaves nlp_service and classification_service set, so that
\* /health then answers 200 "healthy"; while either is unset /health answers
\* 503 "initializing".
C18_InitializeThenHealthy ==
    /\ main_pc # "crashed"
    /\ main_pc = "initialized" => ServicesSet
    /\ \A i \in 1..Len(responses) :
          responses[i].endpoint = "health" =>
              IF ServicesSet
              THEN responses[i].status = 200 /\ responses[i].health = "healthy"
              ELSE responses[i].status = 503 /\ responses[i].health = "initializing"

\* C17 (as claimed): under any interleaving of concurrent calls of a getter,
\* the service is constructed (and its models loaded) at most once, and every
\* call returns the same instance.
C17_ConstructedOnce ==
    \A s \in Services :
        /\ constructed[s] <= 1
        /\ Cardinality(returned[s]) <= 1

\* the texts whose only keyword-bearing words are "theft" and "stolen"
TheftAndStolen ==
    {JoinWith(<<" ">>, <<ChunkTheft, ChunkStolen>>),
     JoinWith(<<" ">>, <<ChunkStolen, ChunkTheft>>)}

\* the keyword fallback produced the last result, for a text of TheftAndStolen
FallbackOnTheftAndStolen == FromFallback /\ call.text \in TheftAndStolen

\* every category but Theft has raw score 0, the label is Theft and the
\* confidence is the raw Theft score divided by the sum of the raw scores
TheftAloneScores(raw) ==
    /\ \A c \in CategorySet \ {"Theft"} : raw[c] = 0
    /\ call.result.label = "Theft"
    /\ FEq(call.result.confidence, Frac(raw["Theft"], SumOver(Categories, raw)))

\* C12 (as claimed): for a text whose only keyword-bearing words are "theft"
\* and "stolen", the fallback counts 2 matches among the 12 Theft keywords (raw
\* Theft score 2/12), every other raw score is 0, and the result is Theft with
\* confidence (2/12) divided by the sum of the raw scores.
C12_TwoMatches ==
    FallbackOnTheftAndStolen =>
        LET raw == RawScores(call.text) IN
        /\ Len(KeywordsTheft) = 12
        /\ MatchCount(KeywordsTheft, Lower(call.text)) = 2
        /\ 12 * raw["Theft"] = 2 * ScoreUnit
        /\ TheftAloneScores(raw)

\* C12 (amended): for such a text the fallback counts 1 match among the 12
\* Theft keywords ("theft"; "stolen" occurs in the table only inside "property
\* stolen"), so the raw Theft score is 1/12, every other raw score is 0, and
\* the result is Theft with confidence (1/12) divided by the sum of the raw
\* scores, which is 1.0.
C12_OneMatch ==
    FallbackOnTheftAndStolen =>
        LET raw == RawScores(call.text) IN
        /\ Len(KeywordsTheft) = 12
        /\ MatchCount(KeywordsTheft, Lower(call.text)) = 1
        /\ 12 * raw["Theft"] = 1 * ScoreUnit
        /\ TheftAloneScores(raw)
        /\ FEq(call.result.confidence, Frac(1, 1))

\* C12 witness: the keyword fallback is latched and has classified "Theft stolen"
C12_Witness ==
    /\ Classified /\ call.strategy = "fallback"
    /\ call.text = JoinWith(<<" ">>, <<ChunkTheft, ChunkStolen>>)
    /\ call.result.label = "Theft"
    /\ call.result.all_scores["Theft"] = call.result.confidence

(***************************************************************************)
(* The tag dispatch of the scan, branch by branch (checked under SpecNER). *)
(***************************************************************************)
\* the triple this step consumes (meaningful when the step consumes one)
Consumed == input'[Len(input')]

\* this step consumes one more triple, and the token is not a sentinel: the
\* loop body reaches its tag dispatch
ConsumesTaggedToken ==
    /\ Len(input') = Len(input) + 1
    /\ Consumed.token \notin SpecialTokens

\* this step consumes a non-sentinel token labelled B-T
ConsumesBeginToken == ConsumesTaggedToken /\ StartsWithB(Consumed.label)

\* after this step the open span is of the consumed token's type and holds
\* that token and its score only
OpensSpanOfConsumed ==
    /\ current_entity' # "None"
    /\ EntityType(current_entity') = EntityType(Consumed.label)
    /\ current_text' = <<Consumed.token>>
    /\ current_scores' = <<Consumed.score>>

\* this step closes no span and adds nothing to any list
EmitsNothing == UNCHANGED <<entities, closed>>

\* the single-token span of the triple tok
TokenSpan(tok) ==
    [type |-> EntityType(tok.label), text |-> <<tok.token>>, scores |-> <<tok.score>>]

\* the last two triples consumed are non-sentinel B- tokens of one type
TwoAdjacentBegins ==
    /\ Len(input) >= 2
    /\ LET a == input[Len(input) - 1]
           b == input[Len(input)]
       IN  /\ a.token \notin SpecialTokens /\ b.token \notin SpecialTokens
           /\ StartsWithB(a.label) /\ StartsWithB(b.label)
           /\ EntityType(a.label) = EntityType(b.label)

\* C21: when a non-sentinel token labelled B-T is scanned, the Open span (if
\* any, of any type, T included) is flushed first, and the scan is then Open on
\* a span of type T that holds only that token and its score; after two
\* adjacent B-T tokens the first is a closed span of its own and the second is
\* the open span, never one merged span.
C21_BeginFlushesAndOpens ==
    /\ [][ConsumesBeginToken =>
            /\ IF SpanOpen THEN FlushesOpenSpan ELSE EmitsNothing
            /\ OpensSpanOfConsumed]_vars
    /\ []((ner_pc = "scan" /\ TwoAdjacentBegins) =>
            /\ closed # <<>>
            /\ closed[Len(closed)] = TokenSpan(input[Len(input) - 1])
            /\ OpenSpan = TokenSpan(input[Len(input)]))

\* C21 witness: two B-PER tokens were scanned one after the other; the first
\* is closed and in persons, the second alone is the open span
C21_Witness ==
    /\ ner_pc = "scan"
    /\ TwoAdjacentBegins
    /\ input[Len(input)].label = "B-PER"
    /\ closed[Len(closed)] = TokenSpan(input[Len(input) - 1])
    /\ entities.persons = <<input[Len(input) - 1].token>>
    /\ current_text = <<input[Len(input)].token>>

\* this step consumes a non-sentinel token labelled I-T while a span of the
\* same type T is Open
ConsumesMatchingInside ==
    /\ ConsumesTaggedToken
    /\ StartsWithI(Consumed.label)
    /\ SpanOpen
    /\ EntityType(Consumed.label) = EntityType(current_entity)

\* this step closes one span while the scan goes on
ClosesSpanInScan == Len(closed') = Len(closed) + 1 /\ ner_pc' = "scan"

\* C22: when a non-sentinel token labelled I-T is scanned while a span of type
\* T is Open, the token and its score are appended to the span, no span is
\* closed, no entity is emitted and the span's type stays T; the open span of
\* a B-T token followed by I-T tokens holds all of their tokens and scores,
\* and a span that is closed is routed on the average of all of its scores.
C22_InsideSameExtends ==
    /\ [][ConsumesMatchingInside =>
            /\ current_text' = Append(current_text, Consumed.token)
            /\ current_scores' = Append(current_scores, Consumed.score)
            /\ EntityType(current_entity') = EntityType(current_entity)
            /\ EmitsNothing]_vars
    /\ [](ner_pc = "scan" =>
            \A b \in 1..Len(input) : IsRun(input, b) => OpenSpan = RunSpan(input, b))
    /\ [][ClosesSpanInScan => FlushesOpenSpan]_vars

\* C22 witness: a B-PER token with score 0.2 was extended by an I-PER token
\* with score 0.8, and the span was then closed and emitted on its average 0.5
C22_Witness ==
    /\ ner_pc = "scan"
    /\ Len(input) = 3
    /\ input[1].label = "B-PER" /\ input[1].score = 20
    /\ input[2].label = "I-PER" /\ input[2].score = 80
    /\ closed = <<RunSpan(SubSeq(input, 1, 2), 1)>>
    /\ entities.persons = <<SpanSurface(closed[1])>>

\* this step consumes a non-sentinel token labelled I-T while a span of a
\* different type is Open
ConsumesMismatchedInside ==
    /\ ConsumesTaggedToken
    /\ StartsWithI(Consumed.label)
    /\ SpanOpen
    /\ EntityType(Consumed.label) # EntityType(current_entity)

\* the last triple consumed is a non-sentinel I- token that followed a
\* non-sentinel B- token of a different type
MismatchedInsideLast ==
    /\ Len(input) >= 2
    /\ LET a == input[Len(input) - 1]
           b == input[Len(input)]
       IN  /\ a.token \notin SpecialTokens /\ b.token \notin SpecialTokens
           /\ StartsWithB(a.label) /\ StartsWithI(b.label)
           /\ EntityType(a.label) # EntityType(b.label)

\* C23: when a non-sentinel token labelled I-T is scanned while a span of a
\* different type T' is Open, the Open span is flushed and routed under T', and
\* the scan is then Open on a span of type T that holds only that token and
\* its score; when the call returns right after, that span is closed as a span
\* of type T and routed to the list of T.
C23_InsideOtherFlushesAndOpens ==
    /\ [][ConsumesMismatchedInside => (FlushesOpenSpan /\ OpensSpanOfConsumed)]_vars
    /\ []((ner_pc = "done" /\ MismatchedInsideLast) =>
            LET sp == TokenSpan(input[Len(input)]) IN
            /\ Len(closed) >= 2
            /\ closed[Len(closed) - 1] = TokenSpan(input[Len(input) - 1])
            /\ closed[Len(closed)] = sp
            /\ \A k \in DOMAIN entities :
                  Qualifies(sp, k) => InSeq(SpanSurface(sp), entities[k]))

\* C23 witness: an I-LOC token was scanned right after a B-PER token and the
\* call returned: the person is in persons and the I-LOC token, a span of its
\* own, is in locations
C23_Witness ==
    /\ ner_pc = "done"
    /\ Len(input) = 2
    /\ input[1].label = "B-PER" /\ input[2].label = "I-LOC"
    /\ closed = <<TokenSpan(input[1]), TokenSpan(input[2])>>
    /\ entities.persons = <<SpanSurface(closed[1])>>
    /\ entities.locations = <<SpanSurface(closed[2])>>

\* this step is the end of the token sequence: the loop is left and the call
\* returns
ReachesEndOfInput == ner_pc = "scan" /\ ner_pc' = "done"

\* the lists as the save sites have filled them after this step
CollectedNext(k) == IF ner_pc' = "done" THEN raw_entities'[k] ELSE entities'[k]

\* the triples from b to the last one consumed are one B- triple followed by
\* same-type I- triples: the input ends inside an entity
EndsInsideEntity == \E b \in 1..Len(input) : IsRun(input, b)

\* C24: when the token sequence ends while a span is Open, the span is closed
\* and routed by the same flush policy as at the other sites (its surface is
\* added to the list of its type when it qualifies, nothing else is added), and
\* a qualifying one is in the returned list of its type; when no span is Open
\* nothing is added at the end. An entity whose last token is the last token of
\* the input is therefore returned.
C24_EndOfInputFlushes ==
    /\ [][ReachesEndOfInput =>
            /\ closed' = IF SpanOpen THEN Append(closed, OpenSpan) ELSE closed
            /\ \A k \in DOMAIN entities :
                  /\ CollectedNext(k) = IF SpanOpen /\ Qualifies(OpenSpan, k)
                                         THEN Append(entities[k], SpanSurface(OpenSpan))
                                         ELSE entities[k]
                  /\ (SpanOpen /\ Qualifies(OpenSpan, k))
                        => InSeq(SpanSurface(OpenSpan), entities'[k])]_vars
    /\ []((ner_pc = "done" /\ EndsInsideEntity) =>
            \A b \in 1..Len(input) : IsRun(input, b) =>
                /\ closed # <<>>
                /\ closed[Len(closed)] = RunSpan(input, b)
                /\ \A k \in DOMAIN entities :
                      Qualifies(RunSpan(input, b), k)
                          => InSeq(SpanSurface(RunSpan(input, b)), entities[k]))

\* C24 witness: the input ended on the I-ORG token of a two-token organization
\* that follows an O token, and the call returned that organization
C24_Witness ==
    /\ ner_pc = "done"
    /\ Len(input) = 3
    /\ input[1].label = "O" /\ input[1].token \notin SpecialTokens
    /\ input[2].label = "B-ORG" /\ input[3].label = "I-ORG"
    /\ closed = <<RunSpan(input, 2)>>
    /\ entities.organizations = <<SpanSurface(closed[1])>>

\* this step is one of the four flush sites with a span Open: a B- token, an
\* I- token of another type, an O token, or the end of the input
FlushSite ==
    /\ ner_pc = "scan"
    /\ SpanOpen
    /\ \/ ConsumesBeginToken
       \/ ConsumesMismatchedInside
       \/ ConsumesOutsideToken
       \/ ReachesEndOfInput

\* the entity types that have a result list
RoutedTypes == {ListType(k) : k \in DOMAIN EmptyEntities}

\* C25: at each of the four flush sites the Open span is closed and the same
\* policy decides: a span whose surface is empty or at most one character long
\* adds nothing; a span of a type other than PER, LOC, ORG (MISC) adds nothing;
\* otherwise the surface is added to the list of the span's type, when the
\* average is >= 0.5, and to no other list. No other step of a scan adds to a
\* list, and so each list is, in order, the surfaces of the closed spans that
\* qualify for it.
C25_OneFlushPolicy ==
    /\ [][FlushSite =>
            LET sp == OpenSpan IN
            /\ closed' = Append(closed, sp)
            /\ (Len(SpanSurface(sp)) <= 1 \/ sp.type \notin RoutedTypes)
                  => \A k \in DOMAIN entities : CollectedNext(k) = entities[k]
            /\ \A k \in DOMAIN entities :
                  CollectedNext(k) =
                      IF /\ sp.type = ListType(k)
                         /\ Len(SpanSurface(sp)) > 1
                         /\ AvgAtLeastHalf(sp)
                      THEN Append(entities[k], SpanSurface(sp))
                      ELSE entities[k]]_vars
    /\ [][(ner_pc = "scan" /\ ~FlushSite) =>
            (closed' = closed /\ \A k \in DOMAIN entities : CollectedNext(k) = entities[k])]_vars
    /\ [](\A k \in DOMAIN entities : Collected(k) = QualifyingSurfaces(k))

\* C25 witness: a call on B-MISC, I-PER, B-LOC tokens has returned; the MISC
\* span (two characters, average 0.8) closed by the I-PER token and the
\* one-character PER span closed by the B-LOC token are in no list, and the
\* LOC span closed at the end of the input is in locations
C25_Witness ==
    /\ ner_pc = "done"
    /\ Len(input) = 3
    /\ input[1].label = "B-MISC" /\ input[2].label = "I-PER" /\ input[3].label = "B-LOC"
    /\ closed = <<TokenSpan(input[1]), TokenSpan(input[2]), TokenSpan(input[3])>>
    /\ Len(SpanSurface(closed[1])) > 1 /\ AvgAtLeastHalf(closed[1])
    /\ Len(SpanSurface(closed[2])) = 1 /\ AvgAtLeastHalf(closed[2])
    /\ entities = [persons |-> <<>>, locations |-> <<SpanSurface(closed[3])>>,
                   organizations |-> <<>>]

\* the sub-word marker
Marker == <<"#", "#">>

\* the token carries the sub-word marker in front
HasMarker(t) == OccursAt(Marker, t, 1)

RECURSIVE Attach(_, _)
\* the tokens toks added to the text acc in scan order: a token with the marker
\* is attached without the marker and without a space, any other token after
\* a single space
Attach(acc, toks) ==
    IF toks = <<>> THEN acc
    ELSE LET t == Head(toks) IN
         Attach(IF HasMarker(t) THEN acc \o SubSeq(t, 3, Len(t)) ELSE acc \o <<" ">> \o t,
                Tail(toks))

\* the surface of a span as claimed: its tokens attached in scan order, trimmed
MergedSurface(tokens) == Strip(Attach(<<>>, tokens))

\* the closed span was emitted: it qualifies for a list
Emitted(sp) == \E k \in DOMAIN entities : Qualifies(sp, k)

\* C26 (as claimed): the surface of every emitted entity is its span's tokens
\* in scan order, a token with the sub-word marker "##" attached to the text
\* before it without the marker and without a space, every other token after a
\* single space, the whole trimmed; no returned entity contains "##", a span
\* whose first token is a sub-word token included.
C26_SurfaceWithoutMarker ==
    /\ \A n \in 1..Len(closed) :
          Emitted(closed[n]) => SpanSurface(closed[n]) = MergedSurface(closed[n].text)
    /\ \A k \in DOMAIN entities :
          \A i \in 1..Len(entities[k]) : ~IsSubstring(Marker, entities[k][i])

\* no triple consumed in this call carries a B- label
NoBeginTag == \A i \in 1..Len(input) : ~StartsWithB(input[i].label)

\* this step consumes a non-sentinel token labelled I-T while no span is Open
ConsumesInsideWhileIdle ==
    /\ ConsumesTaggedToken
    /\ StartsWithI(Consumed.label)
    /\ ~SpanOpen

\* C27: a non-sentinel token labelled I-T scanned while no span is Open opens
\* no span and emits nothing; while the triples consumed hold no B- label (none
\* at all, O tokens only, or O, sentinel and I- tokens) no span is Open, none
\* was closed and the three lists are empty, and the call returns three empty
\* lists.
C27_NoBeginNoEntity ==
    /\ [][ConsumesInsideWhileIdle => (~SpanOpen' /\ EmitsNothing)]_vars
    /\ []((ner_pc \in {"scan", "done"} /\ NoBeginTag) =>
            (~SpanOpen /\ closed = <<>> /\ entities = EmptyEntities))

\* C27 witness: a call on an I- token, a sentinel token and an O token, in any
\* order, has returned three empty lists
C27_Witness ==
    /\ ner_pc = "done"
    /\ Len(input) = 3
    /\ NoBeginTag
    /\ \E i \in 1..3 : StartsWithI(input[i].label)
    /\ \E i \in 1..3 : input[i].token \in SpecialTokens
    /\ \E i \in 1..3 : input[i].label = "O" /\ input[i].token \notin SpecialTokens
    /\ entities = EmptyEntities

\* category_embeddings holds an embedding for each of the six categories
AllEmbeddingsComputed ==
    \A c \in CategorySet : InSeq(c, category_embeddings)

\* C28 (as claimed): in every state after construction sentence_model is set
\* only if category_embeddings holds an embedding for each of the six
\* categories; a failure while the category embeddings are pre-computed leaves
\* the service latched on the keyword fallback; and no classify call is
\* dispatched to the similarity strategy with missing or partial embeddings.
C28_EmbeddingLatchComplete ==
    cls_pc = "ready" =>
        /\ sentence_model # "None" => AllEmbeddingsComputed
        /\ (Logged("sentence_model_set") /\ EmbeddingLoadFailed) => Latched = "Keyword"
        /\ (Classified /\ call.strategy = "similarity") => AllEmbeddingsComputed

(***************************************************************************)
(* The frame of POST /generate_fir (checked under SpecApp).                *)
(***************************************************************************)
\* the response this step sends (meaningful when the step sends one)
Sent == responses'[Len(responses')]

\* this step answers a POST /generate_fir
AnswersGenerateFir ==
    /\ Len(responses') = Len(responses) + 1
    /\ Sent.endpoint = "generate_fir"

\* the responses sent so far to POST /generate_fir with the given status
GenerateFirAnswers(status) ==
    {i \in 1..Len(responses) :
        responses[i].endpoint = "generate_fir" /\ responses[i].status = status}

\* C29: a POST /generate_fir that is not answered 200 (no JSON, a blank
\* description, or an exception while the complaint is processed or the
\* document generated) leaves fir_history as it was; fir_history changes only
\* in a step that answers a POST /generate_fir with 200 and success, by one
\* entry appended with the FIR id of the response.
C29_FailedRequestKeepsHistory ==
    /\ [][(AnswersGenerateFir /\ Sent.status # 200) => UNCHANGED fir_history]_vars
    /\ [][fir_history' # fir_history =>
            /\ AnswersGenerateFir
            /\ Sent.status = 200 /\ Sent.success
            /\ Len(fir_history') = Len(fir_history) + 1
            /\ SubSeq(fir_history', 1, Len(fir_history)) = fir_history
            /\ fir_history'[Len(fir_history')].fir_id = Sent.fir_id]_vars
    /\ [](Len(fir_history) = Cardinality(GenerateFirAnswers(200)))

\* C29 witness: POST /generate_fir was answered 400 for a missing JSON body,
\* 400 for a blank description and 500 for a complaint whose processing raised,
\* and fir_history holds no entry
C29_Witness ==
    /\ \E i \in GenerateFirAnswers(400) : responses[i].json = EmptyDict
    /\ \E i \in GenerateFirAnswers(400) :
          responses[i].json # EmptyDict /\ ~NonBlankDescription(responses[i].json)
    /\ \E i \in GenerateFirAnswers(500) : NonBlankDescription(responses[i].json)
    /\ fir_history = <<>>
====
